---------------------------- MODULE Spec2Model ----------------------------
(***************************************************************************)
(* A model of progjpeg: the progressive JPEG encoder (writer.go, found in  *)
(* src/example_custom_script.go from line 84 on) and the scan decoder      *)
(* (scan.go, found in src/unnamed/part_001 from line 85 on).               *)
(*                                                                         *)
(* Specifications:                                                         *)
(*   SpecScript  the scan-script functions (validateScanScript and the two *)
(*               default constructors) applied to bounded scripts;         *)
(*   SpecQuant   the quantization-table scaling of Encode, every quality;  *)
(*   Spec        one call of Encode, statement by statement, on a sink     *)
(*               that may fail at any call;                                *)
(*   SpecEmit    the bit accumulator: emit applied to bounded sequences of *)
(*               bit fields, and the two ways a scan ends;                 *)
(*   SpecHuff    the compiled Huffman tables, one value at a time;         *)
(*   SpecBlocks  the order of the blocks of a scan, in the encoder and in  *)
(*               the decoder, for bounded image sizes;                     *)
(*   SpecDecode  the decoder's processSOS over the scans of one image,     *)
(*               block by block, restart intervals included.               *)
(***************************************************************************)
EXTENDS Integers, Sequences, FiniteSets, TLC

VARIABLES
    \* ---- SpecScript: one call of a scan-script function
    sScript,    \* the ScanScript argument / result
    sN,         \* nComponent
    sPc,        \* "start" | "gray" | "color" | "validated"
    sFrom,      \* where the validated script came from
    sRet,       \* the value validateScanScript returned
    \* ---- SpecQuant: the quantization tables of one Encode call
    qO,         \* the *Options argument
    qPc,        \* "start" | "quality" | "tables"
    qQuality,   \* the local variable quality
    qQuant,     \* e.quant
    \* ---- Spec: one call of Encode
    m,          \* the image argument
    o,          \* the *Options argument
    pc,         \* the statement Encode is at
    err,        \* e.err (0 is nil, k is the error the sink's k-th call returned)
    bits,       \* e.bits
    nBits,      \* e.nBits
    quant,      \* e.quant
    script,     \* the script writeProgressive executes
    scanIdx,    \* the index of the next scan of script
    out,        \* the bytes the sink has accepted
    sinkLog,    \* the result of every call made on the sink, in order
    ret,        \* what Encode returned
    \* ---- SpecEmit: the bits of the scans of one encoder
    xE,         \* the encoder: bits, nBits, and the calls of the current scan
    xBitsIn,    \* the bits handed to emit in the current scan, in order
    xData,      \* how many of them came before the end-of-scan padding
    xN,         \* the number of calls of emit for data in the current scan
    xScan,      \* the number of the current scan
    xPc,        \* "scan" | "baseline end" | "progressive end"
    \* ---- SpecHuff: one value through one Huffman table
    hH,         \* the huffIndex
    hValue,     \* the value
    hCode,      \* the code emitHuff emits for it: [len, code]
    hDecoded,   \* the value the decoder reads from that code
    hPc,        \* "start" | "emitted" | "decoded"
    \* ---- SpecBlocks: the blocks of one scan
    tM,         \* the image: [gray, Dx, Dy]
    tProgressive, \* Options.Progressive
    tComponent, \* the Component of the scan descriptor (-1 for a baseline scan)
    tEnc,       \* the blocks processImageBlocks visits, in order
    tDec,       \* the blocks processSOS decodes, in order
    tPc,        \* "start" | "encoded" | "decoded"
    \* ---- SpecDecode: the scans of one image in the decoder
    dF,         \* what the SOF and DRI segments left: [d, width, height, ri]
    dec,        \* the decoder fields processSOS changes: [bits, eobRun, progCoeffs, img]
    loc,        \* the local variables of processSOS
    gh,         \* history: what the claims need of the past
    dPc,        \* "sos" | "blocks" | "restart" | "error"
    \* ---- the specifications of one function applied to bounded arguments
    pIn,        \* the arguments
    pOut,       \* the results
    pPc         \* "start", then the name of the last step

scriptVars == <<sScript, sN, sPc, sFrom, sRet>>
quantVars == <<qO, qPc, qQuality, qQuant>>
encVars == <<m, o, pc, err, bits, nBits, quant, script, scanIdx, out, sinkLog, ret>>
emitVars == <<xE, xBitsIn, xData, xN, xScan, xPc>>
huffVars == <<hH, hValue, hCode, hDecoded, hPc>>
blockVars == <<tM, tProgressive, tComponent, tEnc, tDec, tPc>>
\* the variables of the specifications after Spec
decVars == <<dF, dec, loc, gh, dPc>>
callVars == <<pIn, pOut, pPc>>
laterVars == <<emitVars, huffVars, blockVars, decVars, callVars>>
vars == <<scriptVars, quantVars, encVars, laterVars>>

(***************************************************************************)
(* Bounds of the model.                                                    *)
(***************************************************************************)
\* the longest script SpecScript draws
MaxScriptLen == 2

(***************************************************************************)
(* Machine arithmetic.                                                     *)
(***************************************************************************)
Pow2(n) == 2 ^ n

\* uint8(x), byte(x)
U8(x) == x % 256

\* Go's integer division, which truncates toward zero
Quo(a, b) ==
    IF (a >= 0) = (b > 0) THEN a \div b ELSE -((-a) \div b)

\* x >> n on a non-negative value
Shr(x, n) == x \div Pow2(n)

RECURSIVE BitOr(_, _)
BitOr(a, b) ==
    IF a = 0 THEN b
    ELSE IF b = 0 THEN a
    ELSE 2 * BitOr(a \div 2, b \div 2) + (IF (a % 2 = 1) \/ (b % 2 = 1) THEN 1 ELSE 0)

RECURSIVE BitAnd(_, _)
BitAnd(a, b) ==
    IF a = 0 \/ b = 0 THEN 0
    ELSE 2 * BitAnd(a \div 2, b \div 2) + (IF (a % 2 = 1) /\ (b % 2 = 1) THEN 1 ELSE 0)

\* A uint32 is the pair <<high 16 bits, low 16 bits>>: the checker's integers
\* are 32-bit signed and cannot hold the values of a uint32.
W32(x) == <<x \div 65536, x % 65536>>

\* x << n on a uint32, bits shifted past bit 31 are lost; n >= 32 gives 0, and
\* so does a count below 0, which as a uint32 is a count of 2^32 - |n|
W32Shl(x, n) ==
    IF n >= 32 \/ n < 0 THEN <<0, 0>>
    ELSE IF n >= 16 THEN <<(x[2] * Pow2(n - 16)) % 65536, 0>>
    ELSE <<(x[1] * Pow2(n) + x[2] \div Pow2(16 - n)) % 65536, (x[2] * Pow2(n)) % 65536>>

\* x | y on uint32
W32Or(x, y) == <<BitOr(x[1], y[1]), BitOr(x[2], y[2])>>

\* uint8(x >> 24) on a uint32
W32Top8(x) == x[1] \div 256

Min2(a, b) == IF a < b THEN a ELSE b

\* The element of a singleton set.  Only({ F(x) : x \in {v} }) is F(v) with v
\* computed once, before F: this is how the value a statement leaves behind
\* is handed to the statements after it.
Only(S) == CHOOSE x \in S : TRUE

\* for i := lo; i <= hi; i++ { st = Body(st, i) }: the state after the loop.
\* The range is split in halves and the state of the first half is computed
\* before the second half starts, so that the evaluation of a long loop
\* stays shallow.
RECURSIVE ForRange(_, _, _, _)
ForRange(Body(_, _), st, lo, hi) ==
    IF lo > hi THEN st
    ELSE IF lo = hi THEN Body(st, lo)
    ELSE Only({ ForRange(Body, left, (lo + hi) \div 2 + 1, hi) :
                    left \in {ForRange(Body, st, lo, (lo + hi) \div 2)} })

RECURSIVE Flatten(_)
Flatten(ss) == IF ss = <<>> THEN <<>> ELSE Head(ss) \o Flatten(Tail(ss))

RECURSIVE SumSeq(_)
SumSeq(s) == IF s = <<>> THEN 0 ELSE Head(s) + SumSeq(Tail(s))

(***************************************************************************)
(* The scan script model.                                                  *)
(***************************************************************************)
Scan(c, ss, se, ah, al) ==
    [Component |-> c, SpectralStart |-> ss, SpectralEnd |-> se,
     SuccessiveApproxHigh |-> ah, SuccessiveApproxLow |-> al]

DefaultGrayscaleScanScript_DropsLast ==
    << Scan(0, 0, 0, 0, 0), Scan(0, 1, 9, 0, 0) >>

DefaultGrayscaleScanScript ==
    << Scan(0, 0, 0, 0, 0),
       Scan(0, 1, 9, 0, 0),
       Scan(0, 10, 63, 0, 0) >>

DefaultColorScanScript_Overlap ==
    << Scan(-1, 0, 0, 0, 0),
       Scan(0, 1, 2, 0, 0),
       Scan(0, 3, 9, 0, 0),
       Scan(1, 1, 5, 0, 0),
       Scan(2, 1, 5, 0, 0),
       Scan(0, 10, 63, 0, 0),
       Scan(1, 5, 63, 0, 0),
       Scan(2, 6, 63, 0, 0) >>

DefaultColorScanScript ==
    << Scan(-1, 0, 0, 0, 0),
       Scan(0, 1, 2, 0, 0),
       Scan(0, 3, 9, 0, 0),
       Scan(1, 1, 5, 0, 0),
       Scan(2, 1, 5, 0, 0),
       Scan(0, 10, 63, 0, 0),
       Scan(1, 6, 63, 0, 0),
       Scan(2, 6, 63, 0, 0) >>

\* The checks validateScanScript makes on one scan: "nil" or the error.
validateScan_NoApproxOrder(scan, nComponent) ==
    IF scan.Component < -1 \/ scan.Component >= nComponent
      THEN "invalid component"
    ELSE IF scan.SpectralStart < 0 \/ scan.SpectralStart > 63
      THEN "invalid spectral start"
    ELSE IF scan.SpectralEnd < scan.SpectralStart \/ scan.SpectralEnd > 63
      THEN "invalid spectral end"
    ELSE IF scan.SuccessiveApproxHigh < 0 \/ scan.SuccessiveApproxHigh > 13
      THEN "invalid successive approximation high"
    ELSE IF scan.SuccessiveApproxLow < 0 \/ scan.SuccessiveApproxLow > 13
      THEN "invalid successive approximation low"
    ELSE IF scan.SpectralStart = 0 /\ scan.SpectralEnd = 0
      THEN IF scan.Component # -1 /\ scan.Component >= nComponent
             THEN "DC scan has invalid component"
             ELSE "nil"
    ELSE IF scan.Component = -1
      THEN "AC scan cannot have component -1"
    ELSE "nil"

validateScan(scan, nComponent) ==
    IF scan.Component < -1 \/ scan.Component >= nComponent
      THEN "invalid component"
    ELSE IF scan.SpectralStart < 0 \/ scan.SpectralStart > 63
      THEN "invalid spectral start"
    ELSE IF scan.SpectralEnd < scan.SpectralStart \/ scan.SpectralEnd > 63
      THEN "invalid spectral end"
    ELSE IF scan.SuccessiveApproxHigh < 0 \/ scan.SuccessiveApproxHigh > 13
      THEN "invalid successive approximation high"
    ELSE IF scan.SuccessiveApproxLow < 0 \/ scan.SuccessiveApproxLow > 13
      THEN "invalid successive approximation low"
    ELSE IF scan.SuccessiveApproxLow > scan.SuccessiveApproxHigh
      THEN "successive approximation low > high"
    ELSE IF scan.SpectralStart = 0 /\ scan.SpectralEnd = 0
      THEN IF scan.Component # -1 /\ scan.Component >= nComponent
             THEN "DC scan has invalid component"
             ELSE "nil"
    ELSE IF scan.Component = -1
      THEN "AC scan cannot have component -1"
    ELSE "nil"

\* for i, scan := range script: the first error, or nil
RECURSIVE validateFrom(_, _, _)
validateFrom(s, i, nComponent) ==
    IF i > Len(s) THEN "nil"
    ELSE IF validateScan(s[i], nComponent) # "nil" THEN validateScan(s[i], nComponent)
    ELSE validateFrom(s, i + 1, nComponent)

validateScanScript(s, nComponent) ==
    IF Len(s) = 0 THEN "scan script cannot be empty"
    ELSE validateFrom(s, 1, nComponent)


(***************************************************************************)
(* SpecScript: the scan-script functions, called on bounded scripts.       *)
(***************************************************************************)
\* values on and around every limit validateScanScript tests
ComponentInputs == {-2, -1, 0, 1, 2, 3}
SpectralInputs == {-1, 0, 1, 63, 64}
ApproxInputs == {-1, 0, 1, 13, 14}

WideScans ==
    { Scan(c, ss, se, ah, al) :
        c \in ComponentInputs, ss \in SpectralInputs, se \in SpectralInputs,
        ah \in ApproxInputs, al \in ApproxInputs }

NarrowScans ==
    { Scan(-1, 0, 0, 0, 0), Scan(0, 0, 0, 0, 0), Scan(0, 1, 63, 0, 0),
      Scan(2, 1, 5, 0, 0), Scan(-1, 1, 5, 0, 0), Scan(0, 5, 1, 0, 0),
      Scan(0, 0, 0, 0, 1) }

SeqsOfLen(S, n) == [1..n -> S]

ScriptInputs ==
    {<<>>} \cup { <<d>> : d \in WideScans }
           \cup UNION { SeqsOfLen(NarrowScans, n) : n \in 2..MaxScriptLen }

EncIdle ==
    /\ m = [gray |-> TRUE, Dx |-> 0, Dy |-> 0, dct |-> 0]
    /\ o = [isNil |-> TRUE]
    /\ pc = "idle"
    /\ err = 0
    /\ bits = <<0, 0>>
    /\ nBits = 0
    /\ quant = <<>>
    /\ script = <<>>
    /\ scanIdx = 0
    /\ out = <<>>
    /\ sinkLog = <<>>
    /\ ret = 0

EmitIdle ==
    /\ xE = [bits |-> <<0, 0>>, nBits |-> 0]
    /\ xBitsIn = <<>>
    /\ xData = 0
    /\ xN = 0
    /\ xScan = 0
    /\ xPc = "idle"

HuffIdle ==
    /\ hH = 0
    /\ hValue = 0
    /\ hCode = [len |-> 0, code |-> 0]
    /\ hDecoded = -1
    /\ hPc = "idle"

BlocksIdle ==
    /\ tM = [gray |-> TRUE, Dx |-> 0, Dy |-> 0]
    /\ tProgressive = FALSE
    /\ tComponent = 0
    /\ tEnc = <<>>
    /\ tDec = <<>>
    /\ tPc = "idle"

DecodeIdle ==
    /\ dF = 0
    /\ dec = 0
    /\ loc = 0
    /\ gh = 0
    /\ dPc = "idle"

CallIdle ==
    /\ pIn = 0
    /\ pOut = 0
    /\ pPc = "idle"

LaterIdle == EmitIdle /\ HuffIdle /\ BlocksIdle /\ DecodeIdle /\ CallIdle

ScriptIdle ==
    /\ sScript = <<>>
    /\ sN = 0
    /\ sPc = "idle"
    /\ sFrom = "idle"
    /\ sRet = "none"

QuantIdle ==
    /\ qO = [isNil |-> TRUE]
    /\ qPc = "idle"
    /\ qQuality = 0
    /\ qQuant = <<>>

ScriptInit ==
    /\ sScript \in ScriptInputs
    /\ sN \in {1, 3}
    /\ sPc = "start"
    /\ sFrom = "start"
    /\ sRet = "none"
    /\ QuantIdle
    /\ EncIdle
    /\ LaterIdle

\* script := DefaultGrayscaleScanScript()
CallDefaultGrayscaleScanScript ==
    /\ sPc = "start"
    /\ sScript' = DefaultGrayscaleScanScript
    /\ sPc' = "gray"
    /\ UNCHANGED <<sN, sFrom, sRet, quantVars, encVars, laterVars>>

\* script := DefaultColorScanScript()
CallDefaultColorScanScript ==
    /\ sPc = "start"
    /\ sScript' = DefaultColorScanScript
    /\ sPc' = "color"
    /\ UNCHANGED <<sN, sFrom, sRet, quantVars, encVars, laterVars>>

\* err := validateScanScript(script, nComponent)
CallValidateScanScript ==
    /\ sPc \in {"start", "gray", "color"}
    /\ sRet' = validateScanScript(sScript, sN)
    /\ sFrom' = sPc
    /\ sPc' = "validated"
    /\ UNCHANGED <<sScript, sN, quantVars, encVars, laterVars>>

NextScript ==
    \/ CallDefaultGrayscaleScanScript
    \/ CallDefaultColorScanScript
    \/ CallValidateScanScript

SpecScript == ScriptInit /\ [][NextScript]_vars

\* C5: validateScanScript(script, n) returns nil if and only if the script is
\* non-empty and every descriptor has -1 <= component < n,
\* 0 <= spectralStart <= spectralEnd <= 63, 0 <= al <= ah <= 13, and
\* component = -1 only when spectralStart = spectralEnd = 0.
C5_DescriptorOk(d, n) ==
    /\ -1 <= d.Component /\ d.Component < n
    /\ 0 <= d.SpectralStart /\ d.SpectralStart <= d.SpectralEnd /\ d.SpectralEnd <= 63
    /\ 0 <= d.SuccessiveApproxLow
    /\ d.SuccessiveApproxLow <= d.SuccessiveApproxHigh
    /\ d.SuccessiveApproxHigh <= 13
    /\ (d.Component = -1 => (d.SpectralStart = 0 /\ d.SpectralEnd = 0))

C5_ValidateIff ==
    sPc = "validated" =>
        ((sRet = "nil") <=>
            (/\ Len(sScript) > 0
             /\ \A i \in 1..Len(sScript) : C5_DescriptorOk(sScript[i], sN)))

\* C5's case: a two-scan script whose first scan passes every check and
\* whose second is rejected.
C5_Witness ==
    /\ sPc = "validated"
    /\ sFrom = "start"
    /\ Len(sScript) = 2
    /\ validateScan(sScript[1], sN) = "nil"
    /\ sRet = "AC scan cannot have component -1"

\* C8: DefaultGrayscaleScanScript returns exactly (0,0,0), (0,1,9), (0,10,63)
\* and DefaultColorScanScript exactly (-1,0,0), (0,1,2), (0,3,9), (1,1,5),
\* (2,1,5), (0,10,63), (1,6,63), (2,6,63), in that order, all with ah = al = 0.
C8_Triples(s) ==
    [i \in 1..Len(s) |-> <<s[i].Component, s[i].SpectralStart, s[i].SpectralEnd>>]

C8_NoApprox(s) ==
    \A i \in 1..Len(s) :
        s[i].SuccessiveApproxHigh = 0 /\ s[i].SuccessiveApproxLow = 0

C8_DefaultsExact ==
    /\ sPc = "gray" =>
        /\ C8_Triples(sScript) = << <<0, 0, 0>>, <<0, 1, 9>>, <<0, 10, 63>> >>
        /\ C8_NoApprox(sScript)
    /\ sPc = "color" =>
        /\ C8_Triples(sScript) =
              << <<-1, 0, 0>>, <<0, 1, 2>>, <<0, 3, 9>>, <<1, 1, 5>>,
                 <<2, 1, 5>>, <<0, 10, 63>>, <<1, 6, 63>>, <<2, 6, 63>> >>
        /\ C8_NoApprox(sScript)

C8_Witness == sPc = "color" /\ Len(sScript) = 8

\* C9: each default script is accepted by validateScanScript for its own
\* component count, starts with a DC scan, and covers every coefficient
\* index 0..63 of every component exactly once.
C9_Covers(d, c, k) ==
    /\ d.Component = c \/ d.Component = -1
    /\ d.SpectralStart <= k /\ k <= d.SpectralEnd

C9_CoveredOnce(s, n) ==
    \A c \in 0..(n - 1) : \A k \in 0..63 :
        Cardinality({ i \in 1..Len(s) : C9_Covers(s[i], c, k) }) = 1

C9_OwnCount == IF sFrom = "gray" THEN 1 ELSE 3

C9_DefaultsValid ==
    (sPc = "validated" /\ sFrom \in {"gray", "color"}) =>
        /\ sN = C9_OwnCount => sRet = "nil"
        /\ sScript[1].SpectralStart = 0 /\ sScript[1].SpectralEnd = 0
        /\ C9_CoveredOnce(sScript, C9_OwnCount)

C9_Witness ==
    /\ sPc = "validated"
    /\ sFrom = "color"
    /\ sN = 3
    /\ sRet = "nil"

(***************************************************************************)
(* Quantization tables.                                                    *)
(***************************************************************************)
blockSize == 64
nQuantIndex == 2
DefaultQuality == 75

\* unscaledQuant[i][j] of the source is unscaledQuant[i + 1][j + 1] here
unscaledQuant ==
    << << 16, 11, 12, 14, 12, 10, 16, 14,
          13, 14, 18, 17, 16, 19, 24, 40,
          26, 24, 22, 22, 24, 49, 35, 37,
          29, 40, 58, 51, 61, 60, 57, 51,
          56, 55, 64, 72, 92, 78, 64, 68,
          87, 69, 55, 56, 80, 109, 81, 87,
          95, 98, 103, 104, 103, 62, 77, 113,
          121, 112, 100, 120, 92, 101, 103, 99 >>,
       << 17, 18, 18, 24, 21, 24, 47, 26,
          26, 47, 99, 66, 56, 66, 99, 99,
          99, 99, 99, 99, 99, 99, 99, 99,
          99, 99, 99, 99, 99, 99, 99, 99,
          99, 99, 99, 99, 99, 99, 99, 99,
          99, 99, 99, 99, 99, 99, 99, 99,
          99, 99, 99, 99, 99, 99, 99, 99,
          99, 99, 99, 99, 99, 99, 99, 99 >> >>

\* Clip quality to [1, 100].
\* the clipping of the quality without "else if quality > 100"
clipQuality_NoUpperClip(opt) ==
    IF opt.isNil THEN DefaultQuality
    ELSE IF opt.Quality < 1 THEN 1
    ELSE opt.Quality

clipQuality(opt) ==
    IF opt.isNil THEN DefaultQuality
    ELSE IF opt.Quality < 1 THEN 1
    ELSE IF opt.Quality > 100 THEN 100
    ELSE opt.Quality

\* Convert from a quality rating to a scaling factor.
scaleOf(quality) ==
    IF quality < 50 THEN Quo(5000, quality) ELSE 200 - quality * 2

\* e.quant[i][j] = uint8(x), without the x > 255 branch
quantEntry_NoUpperClamp(base, scale) ==
    LET x == Quo(base * scale + 50, 100)
    IN  U8(IF x < 1 THEN 1 ELSE x)

\* e.quant[i][j] = uint8(x)
quantEntry(base, scale) ==
    LET x == Quo(base * scale + 50, 100)
    IN  U8(IF x < 1 THEN 1 ELSE IF x > 255 THEN 255 ELSE x)

\* Initialize the quantization tables.
initQuant(quality) ==
    [i \in 1..nQuantIndex |->
        [j \in 1..blockSize |-> quantEntry(unscaledQuant[i][j], scaleOf(quality))]]

(***************************************************************************)
(* SpecQuant: the quality and the quantization tables of one Encode call.  *)
(***************************************************************************)
\* the largest Options.Quality SpecQuant draws
MaxQualityInput == 102

OptionsOfQuality(q) ==
    [isNil |-> FALSE, Quality |-> q, Progressive |-> FALSE,
     ScanScriptIsNil |-> TRUE, ScanScript |-> <<>>]

NilOptions ==
    [isNil |-> TRUE, Quality |-> 0, Progressive |-> FALSE,
     ScanScriptIsNil |-> TRUE, ScanScript |-> <<>>]

QuantInit ==
    /\ qO \in {NilOptions} \cup { OptionsOfQuality(q) : q \in (-2)..MaxQualityInput }
    /\ qPc = "start"
    /\ qQuality = 0
    /\ qQuant = <<>>
    /\ ScriptIdle
    /\ EncIdle
    /\ LaterIdle

\* Encode, "Clip quality to [1, 100]."
EncodeClipQuality ==
    /\ qPc = "start"
    /\ qQuality' = clipQuality(qO)
    /\ qPc' = "quality"
    /\ UNCHANGED <<qO, qQuant, scriptVars, encVars, laterVars>>

\* Encode, "Initialize the quantization tables."
EncodeInitQuant ==
    /\ qPc = "quality"
    /\ qQuant' = initQuant(qQuality)
    /\ qPc' = "tables"
    /\ UNCHANGED <<qO, qQuality, scriptVars, encVars, laterVars>>

NextQuant ==
    \/ EncodeClipQuality
    \/ EncodeInitQuant

SpecQuant == QuantInit /\ [][NextQuant]_vars

\* C10: for every quality q in 1..100 and every entry of both base tables,
\* the scaled entry equals clamp(1, 255, (base*scale+50)/100) with
\* scale = 5000/q (integer division) when q < 50 and 200-2q otherwise, so it
\* lies in [1,255] and fits an unsigned 8-bit value without truncation.
C10_Scale(q) == IF q < 50 THEN 5000 \div q ELSE 200 - 2 * q

C10_Clamp(lo, hi, x) == IF x < lo THEN lo ELSE IF x > hi THEN hi ELSE x

C10_QuantInRange ==
    qPc = "tables" =>
        /\ qQuality \in 1..100
        /\ \A i \in 1..2 : \A j \in 1..64 :
              /\ qQuant[i][j] =
                    C10_Clamp(1, 255, (unscaledQuant[i][j] * C10_Scale(qQuality) + 50) \div 100)
              /\ qQuant[i][j] \in 1..255

\* C10's case: at quality 1 the scaled entries exceed 255 and are clamped.
C10_Witness ==
    /\ qPc = "tables"
    /\ qQuality = 1
    /\ (unscaledQuant[1][1] * C10_Scale(1) + 50) \div 100 > 255
    /\ qQuant[1][1] = 255

\* C11: the quality Encode uses is in 1..100: 75 for nil options; with
\* options, a Quality below 1 (0 too) gives 1, one above 100 gives 100, and
\* one in 1..100 is used as it is.
C11_QualityClipped ==
    qPc # "start" =>
        /\ qQuality \in 1..100
        /\ qO.isNil => qQuality = 75
        /\ (~qO.isNil /\ qO.Quality < 1) => qQuality = 1
        /\ (~qO.isNil /\ qO.Quality > 100) => qQuality = 100
        /\ (~qO.isNil /\ qO.Quality \in 1..100) => qQuality = qO.Quality

\* C11 witness: the tables were built at quality 100 for a Quality above 100
C11_Witness ==
    /\ qPc = "tables"
    /\ ~qO.isNil
    /\ qO.Quality = 101
    /\ qQuality = 100

(***************************************************************************)
(* Huffman tables.                                                         *)
(***************************************************************************)
huffIndexLuminanceDC == 0
huffIndexLuminanceAC == 1
huffIndexChrominanceDC == 2
huffIndexChrominanceAC == 3
nHuffIndex == 4

\* theHuffmanSpec[h] of the source is theHuffmanSpec[h + 1] here;
\* count[i] is count[i + 1] and value[k] is value[k + 1]
theHuffmanSpec ==
    <<
       [count |-> <<0, 1, 5, 1, 1, 1, 1, 1, 1, 0, 0, 0, 0, 0, 0, 0>>,
        value |-> <<
            0, 1, 2, 3, 4, 5, 6, 7, 8, 9, 10, 11 >>],
       [count |-> <<0, 2, 1, 3, 3, 2, 4, 3, 5, 5, 4, 4, 0, 0, 1, 125>>,
        value |-> <<
            1, 2, 3, 0, 4, 17, 5, 18, 33, 49, 65, 6,
            19, 81, 97, 7, 34, 113, 20, 50, 129, 145, 161, 8,
            35, 66, 177, 193, 21, 82, 209, 240, 36, 51, 98, 114,
            130, 9, 10, 22, 23, 24, 25, 26, 37, 38, 39, 40,
            41, 42, 52, 53, 54, 55, 56, 57, 58, 67, 68, 69,
            70, 71, 72, 73, 74, 83, 84, 85, 86, 87, 88, 89,
            90, 99, 100, 101, 102, 103, 104, 105, 106, 115, 116, 117,
            118, 119, 120, 121, 122, 131, 132, 133, 134, 135, 136, 137,
            138, 146, 147, 148, 149, 150, 151, 152, 153, 154, 162, 163,
            164, 165, 166, 167, 168, 169, 170, 178, 179, 180, 181, 182,
            183, 184, 185, 186, 194, 195, 196, 197, 198, 199, 200, 201,
            202, 210, 211, 212, 213, 214, 215, 216, 217, 218, 225, 226,
            227, 228, 229, 230, 231, 232, 233, 234, 241, 242, 243, 244,
            245, 246, 247, 248, 249, 250 >>],
       [count |-> <<0, 3, 1, 1, 1, 1, 1, 1, 1, 1, 1, 0, 0, 0, 0, 0>>,
        value |-> <<
            0, 1, 2, 3, 4, 5, 6, 7, 8, 9, 10, 11 >>],
       [count |-> <<0, 2, 1, 2, 4, 4, 3, 4, 7, 5, 4, 4, 0, 1, 2, 119>>,
        value |-> <<
            0, 1, 2, 3, 17, 4, 5, 33, 49, 6, 18, 65,
            81, 7, 97, 113, 19, 34, 50, 129, 8, 20, 66, 145,
            161, 177, 193, 9, 35, 51, 82, 240, 21, 98, 114, 209,
            10, 22, 36, 52, 225, 37, 241, 23, 24, 25, 26, 38,
            39, 40, 41, 42, 53, 54, 55, 56, 57, 58, 67, 68,
            69, 70, 71, 72, 73, 74, 83, 84, 85, 86, 87, 88,
            89, 90, 99, 100, 101, 102, 103, 104, 105, 106, 115, 116,
            117, 118, 119, 120, 121, 122, 130, 131, 132, 133, 134, 135,
            136, 137, 138, 146, 147, 148, 149, 150, 151, 152, 153, 154,
            162, 163, 164, 165, 166, 167, 168, 169, 170, 178, 179, 180,
            181, 182, 183, 184, 185, 186, 194, 195, 196, 197, 198, 199,
            200, 201, 202, 210, 211, 212, 213, 214, 215, 216, 217, 218,
            226, 227, 228, 229, 230, 231, 232, 233, 234, 242, 243, 244,
            245, 246, 247, 248, 249, 250 >>]
    >>

\* for _, v := range s.value: maxValue
maxValueOf(value) ==
    LET Body(maxValue, k) == IF value[k] > maxValue THEN value[k] ELSE maxValue
    IN  ForRange(Body, 0, 1, Len(value))

\* init that stores the code without its length: "(*h)[s.value[k]] = code"
huffmanLUT_init_CodeOnly(s) ==
    LET Outer(st, i) ==
            LET Inner(t, j) ==
                    [h    |-> [t.h EXCEPT ![s.value[t.k + 1]] = t.code],
                     code |-> t.code + 1,
                     k    |-> t.k + 1]
            IN  [ForRange(Inner, st, 0, s.count[i + 1] - 1) EXCEPT !.code = @ * 2]
    IN  ForRange(Outer,
                 [h |-> [v \in 0..maxValueOf(s.value) |-> 0], code |-> 0, k |-> 0],
                 0, 15).h

\* init without "code <<= 1" after the codes of one length
huffmanLUT_init_NoShift(s) ==
    LET Outer(st, i) ==
            LET Inner(t, j) ==
                    [h    |-> [t.h EXCEPT ![s.value[t.k + 1]] =
                                    BitOr((i + 1) * Pow2(24), t.code)],
                     code |-> t.code + 1,
                     k    |-> t.k + 1]
            IN  ForRange(Inner, st, 0, s.count[i + 1] - 1)
    IN  ForRange(Outer,
                 [h |-> [v \in 0..maxValueOf(s.value) |-> 0], code |-> 0, k |-> 0],
                 0, 15).h

\* func (h *huffmanLUT) init(s huffmanSpec); the table is indexed from 0.
\* code is a uint32 that stays below 2^17 for 16 lengths of at most 255
\* codes each, and nBits | code below 2^29.
huffmanLUT_init(s) ==
    LET Outer(st, i) ==
            LET Inner(t, j) ==
                    [h    |-> [t.h EXCEPT ![s.value[t.k + 1]] =
                                    BitOr((i + 1) * Pow2(24), t.code)],
                     code |-> t.code + 1,
                     k    |-> t.k + 1]
            IN  [ForRange(Inner, st, 0, s.count[i + 1] - 1) EXCEPT !.code = @ * 2]
    IN  ForRange(Outer,
                 [h |-> [v \in 0..maxValueOf(s.value) |-> 0], code |-> 0, k |-> 0],
                 0, 15).h

\* theHuffmanLUT[h], as func init() compiles it
theHuffmanLUT == [h \in 0..(nHuffIndex - 1) |-> huffmanLUT_init(theHuffmanSpec[h + 1])]

(***************************************************************************)
(* The encoder: bit emission.  An encoder value e is the struct encoder    *)
(* without its writer: [bits, nBits, quant], and calls, the calls of       *)
(* e.write, e.writeByte and e.flush it has made so far, in order.  What    *)
(* such a call does with the sink and e.err is write/writeByte/flush below.*)
(***************************************************************************)
\* bitCount[a] of the source is bitCount[a + 1] here
bitCount ==
    <<
       0, 1, 2, 2, 3, 3, 3, 3, 4, 4, 4, 4, 4, 4, 4, 4,
       5, 5, 5, 5, 5, 5, 5, 5, 5, 5, 5, 5, 5, 5, 5, 5,
       6, 6, 6, 6, 6, 6, 6, 6, 6, 6, 6, 6, 6, 6, 6, 6,
       6, 6, 6, 6, 6, 6, 6, 6, 6, 6, 6, 6, 6, 6, 6, 6,
       7, 7, 7, 7, 7, 7, 7, 7, 7, 7, 7, 7, 7, 7, 7, 7,
       7, 7, 7, 7, 7, 7, 7, 7, 7, 7, 7, 7, 7, 7, 7, 7,
       7, 7, 7, 7, 7, 7, 7, 7, 7, 7, 7, 7, 7, 7, 7, 7,
       7, 7, 7, 7, 7, 7, 7, 7, 7, 7, 7, 7, 7, 7, 7, 7,
       8, 8, 8, 8, 8, 8, 8, 8, 8, 8, 8, 8, 8, 8, 8, 8,
       8, 8, 8, 8, 8, 8, 8, 8, 8, 8, 8, 8, 8, 8, 8, 8,
       8, 8, 8, 8, 8, 8, 8, 8, 8, 8, 8, 8, 8, 8, 8, 8,
       8, 8, 8, 8, 8, 8, 8, 8, 8, 8, 8, 8, 8, 8, 8, 8,
       8, 8, 8, 8, 8, 8, 8, 8, 8, 8, 8, 8, 8, 8, 8, 8,
       8, 8, 8, 8, 8, 8, 8, 8, 8, 8, 8, 8, 8, 8, 8, 8,
       8, 8, 8, 8, 8, 8, 8, 8, 8, 8, 8, 8, 8, 8, 8, 8,
       8, 8, 8, 8, 8, 8, 8, 8, 8, 8, 8, 8, 8, 8, 8, 8
    >>

\* div returns a/b rounded to the nearest integer, instead of rounded to zero.
div(a, b) ==
    IF a >= 0 THEN Quo(a + Shr(b, 1), b)
    ELSE -Quo(-a + Shr(b, 1), b)

CallWrite(p) == [op |-> "Write", p |-> p]
CallWriteByte(b) == [op |-> "WriteByte", p |-> <<b>>]
CallFlush == [op |-> "Flush", p |-> <<>>]

\* the loop of emit without "if b == 0xff { e.writeByte(0x00) }"
RECURSIVE emitLoop_NoStuffing(_, _, _)
emitLoop_NoStuffing(e, b, n) ==
    IF n >= 8
      THEN Only({ emitLoop_NoStuffing(e1, b1, n - 8) :
                    e1 \in {[e EXCEPT !.calls = Append(@, CallWriteByte(W32Top8(b)))]},
                    b1 \in {W32Shl(b, 8)} })
      ELSE [e EXCEPT !.bits = b, !.nBits = n]

\* the loop of emit: for nBits >= 8 { ... }
RECURSIVE emitLoop(_, _, _)
emitLoop(e, b, n) ==
    IF n >= 8
      THEN Only({ emitLoop(e1, b1, n - 8) :
                    e1 \in {[e EXCEPT !.calls =
                                IF W32Top8(b) = 255
                                  THEN @ \o <<CallWriteByte(255), CallWriteByte(0)>>
                                  ELSE Append(@, CallWriteByte(W32Top8(b)))]},
                    b1 \in {W32Shl(b, 8)} })
      ELSE [e EXCEPT !.bits = b, !.nBits = n]

\* emit without "bits |= e.bits"
emit_DropsPending(e, b, n) ==
    emitLoop(e, W32Shl(W32(b), 32 - (n + e.nBits)), n + e.nBits)

\* emit emits the least significant nBits bits of bits to the bit-stream.
emit(e, b, n) ==
    Only({ emitLoop(e, b1, n + e.nBits) :
             b1 \in {W32Or(W32Shl(W32(b), 32 - (n + e.nBits)), e.bits)} })

\* emitHuff emits the given value with the given Huffman encoder.
emitHuff(e, h, value) ==
    Only({ emit(e, x % Pow2(24), Shr(x, 24)) : x \in {theHuffmanLUT[h][value]} })

\* emitHuffRLE without "b = value-1" for the negative values
emitHuffRLE_NoMinusOne(e, h, runLength, value) ==
    LET a == IF value < 0 THEN -value ELSE value
    IN  Only({ Only({ IF n > 0 THEN emit(e1, value % Pow2(n), n) ELSE e1 :
                        e1 \in {emitHuff(e, h, BitOr(runLength * 16, n))} }) :
                 n \in {IF a < 256 THEN bitCount[a + 1] ELSE 8 + bitCount[Shr(a, 8) + 1]} })

\* emitHuffRLE emits a run of runLength copies of value encoded with the given
\* Huffman encoder.  uint32(b) & (1<<nBits - 1) is b modulo 2^nBits.
emitHuffRLE(e, h, runLength, value) ==
    LET a == IF value < 0 THEN -value ELSE value
        b == IF value < 0 THEN value - 1 ELSE value
    IN  Only({ Only({ IF n > 0 THEN emit(e1, b % Pow2(n), n) ELSE e1 :
                        e1 \in {emitHuff(e, h, BitOr(runLength * 16, n))} }) :
                 n \in {IF a < 256 THEN bitCount[a + 1] ELSE 8 + bitCount[Shr(a, 8) + 1]} })

(***************************************************************************)
(* The encoder: marker segments.                                           *)
(***************************************************************************)
sof0Marker == 192
sof2Marker == 194
dhtMarker == 196
dqtMarker == 219

\* e.write(p), e.writeByte(b), e.flush() as seen from the encoder's code:
\* one more call in e.calls
eWrite(e, p) == [e EXCEPT !.calls = Append(@, CallWrite(p))]
eWriteByte(e, b) == [e EXCEPT !.calls = Append(@, CallWriteByte(b))]
eFlush(e) == [e EXCEPT !.calls = Append(@, CallFlush)]

\* writeMarkerHeader writes the header for a marker with the given length.
writeMarkerHeader(e, marker, markerlen) ==
    eWrite(e, <<255, marker, U8(Shr(markerlen, 8)), U8(BitAnd(markerlen, 255))>>)

\* writeDQT writes the Define Quantization Table marker.
writeDQT(e) ==
    LET markerlen == 2 + nQuantIndex * (1 + blockSize)
        Body(st, i) == eWrite(eWriteByte(st, U8(i)), e.quant[i + 1])
    IN  ForRange(Body, writeMarkerHeader(e, dqtMarker, markerlen), 0, nQuantIndex - 1)

\* writeSOF writes the Start Of Frame marker: the bytes of e.buf it fills
sofBuf(size, nComponent) ==
    <<8, U8(Shr(size.Y, 8)), U8(BitAnd(size.Y, 255)),
         U8(Shr(size.X, 8)), U8(BitAnd(size.X, 255)), U8(nComponent)>>
    \o (IF nComponent = 1
          THEN <<1, 17, 0>>
          ELSE Flatten([i \in 1..nComponent |->
                          <<U8(i), <<34, 17, 17>>[i], <<0, 1, 1>>[i]>>]))

\* writeSOF that writes the SOF0 marker whatever marker it is given
writeSOF_AlwaysSOF0(e, size, nComponent, marker) ==
    eWrite(writeMarkerHeader(e, sof0Marker, 8 + 3 * nComponent),
           SubSeq(sofBuf(size, nComponent), 1, 3 * (nComponent - 1) + 9))

writeSOF(e, size, nComponent, marker) ==
    LET markerlen == 8 + 3 * nComponent
    IN  eWrite(writeMarkerHeader(e, marker, markerlen),
               SubSeq(sofBuf(size, nComponent), 1, 3 * (nComponent - 1) + 9))

\* writeDHT with the length of all four tables whatever nComponent is
writeDHT_LenOfAllSpecs(e, nComponent) ==
    LET specs == IF nComponent = 1 THEN SubSeq(theHuffmanSpec, 1, 2) ELSE theHuffmanSpec
        markerlen == 2 + SumSeq([i \in 1..Len(theHuffmanSpec) |->
                                    1 + 16 + Len(theHuffmanSpec[i].value)])
        Body(st, i) ==
            eWrite(eWrite(eWriteByte(st, <<0, 16, 1, 17>>[i]), specs[i].count),
                   specs[i].value)
    IN  ForRange(Body, writeMarkerHeader(e, dhtMarker, markerlen), 1, Len(specs))

\* writeDHT writes the Define Huffman Table marker.
writeDHT(e, nComponent) ==
    LET specs == IF nComponent = 1 THEN SubSeq(theHuffmanSpec, 1, 2) ELSE theHuffmanSpec
        markerlen == 2 + SumSeq([i \in 1..Len(specs) |-> 1 + 16 + Len(specs[i].value)])
        Body(st, i) ==
            eWrite(eWrite(eWriteByte(st, <<0, 16, 1, 17>>[i]), specs[i].count),
                   specs[i].value)
    IN  ForRange(Body, writeMarkerHeader(e, dhtMarker, markerlen), 1, Len(specs))

(***************************************************************************)
(* The encoder: blocks.  A block b is a function on 0..63, in natural      *)
(* order, holding what fdct leaves in it; fdct itself is not in the        *)
(* repository's files.                                                     *)
(***************************************************************************)
\* unzig[zig] of the source is unzig[zig + 1] here
unzig ==
    << 0, 1, 8, 16, 9, 2, 3, 10,
       17, 24, 32, 25, 18, 11, 4, 5,
       12, 19, 26, 33, 40, 48, 41, 34,
       27, 20, 13, 6, 7, 14, 21, 28,
       35, 42, 49, 56, 57, 50, 43, 36,
       29, 22, 15, 23, 30, 37, 44, 51,
       58, 59, 52, 45, 38, 31, 39, 46,
       53, 60, 61, 54, 47, 55, 62, 63 >>

\* the loop of the ZRL codes with "runLength -= 15"
RECURSIVE emitZRL_Minus15(_, _)
emitZRL_Minus15(st, h) ==
    IF st.runLength > 15
      THEN Only({ emitZRL_Minus15(t, h) :
                    t \in {[e |-> emitHuff(st.e, h, 240), runLength |-> st.runLength - 15]} })
      ELSE st

\* for runLength > 15 { e.emitHuff(h, 0xf0); runLength -= 16 }
RECURSIVE emitZRL(_, _)
emitZRL(st, h) ==
    IF st.runLength > 15
      THEN Only({ emitZRL(t, h) :
                    t \in {[e |-> emitHuff(st.e, h, 240), runLength |-> st.runLength - 16]} })
      ELSE st

\* the body of the loop over zig of writeBlock and writePartialBlock
acStep(st, b, q, h, zig) ==
    Only({ IF ac = 0
             THEN [st EXCEPT !.runLength = @ + 1]
             ELSE Only({ [e |-> emitHuffRLE(t.e, h, t.runLength, ac), runLength |-> 0] :
                           t \in {emitZRL(st, h)} }) :
             ac \in {div(b[unzig[zig + 1]], 8 * st.e.quant[q + 1][zig + 1])} })

\* the loop of the AC components with "zig < se"
acLoop_ExcludesEnd(e, b, q, zigStart, zigEnd) ==
    LET h == 2 * q + 1
        Body(st, zig) == acStep(st, b, q, h, zig)
    IN  Only({ IF t.runLength > 0 THEN emitHuff(t.e, h, 0) ELSE t.e :
                 t \in {ForRange(Body, [e |-> e, runLength |-> 0], zigStart, zigEnd - 1)} })

\* Emit the AC components zigStart..zigEnd, then the end of block
acLoop(e, b, q, zigStart, zigEnd) ==
    LET h == 2 * q + 1
        Body(st, zig) == acStep(st, b, q, h, zig)
    IN  Only({ IF t.runLength > 0 THEN emitHuff(t.e, h, 0) ELSE t.e :
                 t \in {ForRange(Body, [e |-> e, runLength |-> 0], zigStart, zigEnd)} })

\* writeBlock writes a block of pixel data using the given quantization table,
\* returning the post-quantized DC value: [e, dc]
writeBlock(e, b, q, prevDC) ==
    Only({ Only({ [e |-> acLoop(e1, b, q, 1, blockSize - 1), dc |-> dc] :
                    e1 \in {emitHuffRLE(e, 2 * q + 0, 0, dc - prevDC)} }) :
             dc \in {div(b[0], 8 * e.quant[q + 1][1])} })

\* writePartialBlock writes a block of pixel data for a progressive scan,
\* processing only the coefficients ss..se: [e, dc]
writePartialBlock(e, b, q, prevDC, ss, se) ==
    IF ss = 0 /\ se = 0
      THEN Only({ [e |-> emitHuffRLE(e, 2 * q + 0, 0, dc - prevDC), dc |-> dc] :
                    dc \in {div(b[0], 8 * e.quant[q + 1][1])} })
    ELSE IF ss > 0
      THEN [e |-> acLoop(e, b, q, ss, se), dc |-> 0]
    ELSE [e |-> e, dc |-> 0]

(***************************************************************************)
(* The encoder: scans.  An image m is [gray, Dx, Dy, dct]: whether it is   *)
(* an *image.Gray, the size of its bounds, and the coefficients its blocks *)
(* transform to.  The colour conversion, the chroma scaling and fdct are   *)
(* outside the repository's files: blockOf gives the block they leave in b *)
(* for the block (bx, by) of a component.                                  *)
(***************************************************************************)
\* the blocks of the input images, before quantization
blockOf(img, comp, bx, by) ==
    [n \in 0..(blockSize - 1) |->
        IF img.dct = 1
          THEN IF n = 0 THEN 1024 - 512 * comp + 256 * bx - 128 * by ELSE 0
          ELSE CASE n = 0 -> 300 * bx + 100 * by - 600
                 [] n = 1 -> 200
                 [] n = 8 -> 0 - 150
                 [] n = 36 -> 900 + 700 * comp
                 [] n = 63 -> 2000 - 3000 * bx
                 [] OTHER -> 0]

\* for y := bounds.Min.Y; y < bounds.Max.Y; y += step: the number of iterations
stepsOf(len, step) == IF len <= 0 THEN 0 ELSE (len + step - 1) \div step

\* processor(&b, q, prevDC): the blockProcessor proc applied, [e, dc]
processor(proc, e, b, q, prevDC) ==
    IF proc.partial
      THEN writePartialBlock(e, b, q, prevDC, proc.ss, proc.se)
      ELSE writeBlock(e, b, q, prevDC)

\* the blocks <<component, bx, by>> of the two loops over y and x in steps of 8
\* (*image.Gray, and component 0 of the other images), in order
rasterBlocks(img) ==
    [k \in 1..(stepsOf(img.Dx, 8) * stepsOf(img.Dy, 8)) |->
        <<0, (k - 1) % stepsOf(img.Dx, 8), (k - 1) \div stepsOf(img.Dx, 8)>>]

\* the blocks of the 16x16 region (mx, my) that are processed, in order: the
\* four Y blocks, then Cb, then Cr, each under its test of component
regionBlocks(component, mx, my) ==
    (IF component = -1 \/ component = 0
       THEN [i \in 1..4 |-> <<0, 2 * mx + ((i - 1) % 2), 2 * my + ((i - 1) \div 2)>>]
       ELSE <<>>)
    \o (IF component = -1 \/ component = 1 THEN << <<1, mx, my>> >> ELSE <<>>)
    \o (IF component = -1 \/ component = 2 THEN << <<2, mx, my>> >> ELSE <<>>)

\* processImageBlocks with the Y-only scans of a colour image going through
\* the loops over the 16x16 regions as well
scanBlocks_YByRegion(img, component) ==
    IF img.gray THEN rasterBlocks(img)
    ELSE LET nx == stepsOf(img.Dx, 16)
             Body(acc, k) == acc \o regionBlocks(component, k % nx, k \div nx)
         IN  ForRange(Body, <<>>, 0, nx * stepsOf(img.Dy, 16) - 1)

\* the blocks processImageBlocks hands to the processor, in order
scanBlocks(img, component) ==
    IF img.gray THEN rasterBlocks(img)
    ELSE IF component # 0
      THEN LET nx == stepsOf(img.Dx, 16)
               Body(acc, k) == acc \o regionBlocks(component, k % nx, k \div nx)
           IN  ForRange(Body, <<>>, 0, nx * stepsOf(img.Dy, 16) - 1)
    ELSE rasterBlocks(img)

\* the call of the processor with prevDCY for the blocks of every component
blockStep_SharedPredictor(st, img, blk, proc) ==
    Only({ [e |-> r.e, prevDC |-> [st.prevDC EXCEPT ![1] = r.dc]] :
             r \in {processor(proc, st.e, blockOf(img, blk[1], blk[2], blk[3]),
                              IF blk[1] = 0 THEN 0 ELSE 1, st.prevDC[1])} })

\* prevDCY = processor(&b, 0, prevDCY), prevDCCb = processor(&b, 1, prevDCCb)
\* or prevDCCr = processor(&b, 1, prevDCCr) for the block blk, <<component,
\* bx, by>>; st is [e, prevDC], prevDC[c + 1] being prevDCY, prevDCCb, prevDCCr
blockStep(st, img, blk, proc) ==
    Only({ [e |-> r.e, prevDC |-> [st.prevDC EXCEPT ![blk[1] + 1] = r.dc]] :
             r \in {processor(proc, st.e, blockOf(img, blk[1], blk[2], blk[3]),
                              IF blk[1] = 0 THEN 0 ELSE 1, st.prevDC[blk[1] + 1])} })

\* processImageBlocks iterates over image blocks and calls the processor
\* function for each block.
processImageBlocks(e, img, component, proc) ==
    Only({ LET Body(st, k) == blockStep(st, img, bl[k], proc)
           IN  ForRange(Body, [e |-> e, prevDC |-> <<0, 0, 0>>], 1, Len(bl)).e :
             bl \in {scanBlocks(img, component)} })

sosHeaderY == <<255, 218, 0, 8, 1, 1, 0, 0, 63, 0>>

sosHeaderYCbCr == <<255, 218, 0, 12, 3, 1, 0, 2, 17, 3, 17, 0, 63, 0>>

\* writeSOS writes the StartOfScan marker.
writeSOS(e, img) ==
    Only({ emit(e2, 127, 7) :
             e2 \in {processImageBlocks(eWrite(e, IF img.gray THEN sosHeaderY ELSE sosHeaderYCbCr),
                                        img, -1, [partial |-> FALSE, ss |-> 0, se |-> 63])} })

\* progressiveScript with ah and al exchanged
progressiveScript_SwapApprox(zigStart, zigEnd, ah, al) ==
    <<U8(zigStart), U8(zigEnd), BitOr(U8(U8(al) * 16), BitAnd(U8(ah), 15))>>

\* the three bytes after the component list: (byte(ah) << 4) | (byte(al) & 0x0F)
progressiveScript(zigStart, zigEnd, ah, al) ==
    <<U8(zigStart), U8(zigEnd), BitOr(U8(U8(ah) * 16), BitAnd(U8(al), 15))>>

\* the SOS marker, length and component list writeProgressiveSOS writes
sosHeaderShort(component) ==
    IF component # -1
      THEN <<255, 218, 0, 8, 1, U8(component + 1),
             IF component = 1 \/ component = 2 THEN 17 ELSE 0>>
      ELSE <<255, 218, 0, 12, 3, 1, 0, 2, 17, 3, 17>>

\* writeProgressiveSOS up to and including e.emit(0x7f, 7)
progressiveScan(e, img, zigStart, zigEnd, ah, al, component) ==
    Only({ emit(e3, 127, 7) :
             e3 \in {processImageBlocks(
                        eWrite(eWrite(e, sosHeaderShort(component)),
                               progressiveScript(zigStart, zigEnd, ah, al)),
                        img, component,
                        [partial |-> TRUE, ss |-> zigStart, se |-> zigEnd])} })

\* the end of writeProgressiveSOS with nothing after e.emit(0x7f, 7) (the
\* second bug the README reports fixed)
alignAndReset_Nothing(e4) == e4

\* the end of writeProgressiveSOS resetting the bit buffer without padding
\* the pending bits to a byte
alignAndReset_ResetOnly(e4) == [e4 EXCEPT !.bits = <<0, 0>>, !.nBits = 0]

\* writeProgressiveSOS after e.emit(0x7f, 7): "Flush any remaining bits and
\* reset the bit buffer for the next scan."
alignAndReset(e4) ==
    Only({ [e5 EXCEPT !.bits = <<0, 0>>, !.nBits = 0] :
             e5 \in {IF e4.nBits > 0
                       THEN emit(e4, Pow2(8 - e4.nBits) - 1, 8 - e4.nBits)
                       ELSE e4} })

\* writeProgressiveSOS writes a Start Of Scan marker for a progressive scan
\* and processes the image blocks for that scan.
writeProgressiveSOS(e, img, zigStart, zigEnd, ah, al, component) ==
    Only({ alignAndReset(e4) :
             e4 \in {progressiveScan(e, img, zigStart, zigEnd, ah, al, component)} })

(***************************************************************************)
(* The sink e.w and the three methods that reach it.  A sink state st is   *)
(* [err, out, sinkLog].  A call the sink fails returns an error that is    *)
(* named by the call's position in sinkLog; a Write that fails is taken to *)
(* have accepted none of its bytes.                                        *)
(***************************************************************************)
\* e.w.Write(p), e.w.WriteByte(b), e.w.Flush(): the sink is called
sinkCall(st, op, p, fails) ==
    [err |-> IF fails THEN Len(st.sinkLog) + 1 ELSE 0,
     out |-> IF fails THEN st.out ELSE st.out \o p,
     sinkLog |-> Append(st.sinkLog, [op |-> op, n |-> Len(p), res |-> IF fails THEN Len(st.sinkLog) + 1 ELSE 0])]

\* write without the test of e.err
write_NoErrCheck(st, p, fails) == sinkCall(st, "Write", p, fails)

write(st, p, fails) == IF st.err # 0 THEN st ELSE sinkCall(st, "Write", p, fails)

writeByte(st, b, fails) == IF st.err # 0 THEN st ELSE sinkCall(st, "WriteByte", <<b>>, fails)

flush(st, fails) == IF st.err # 0 THEN st ELSE sinkCall(st, "Flush", <<>>, fails)

\* the calls one statement of Encode attempts, in order; the sink fails the
\* one at position failAt (0: none)
Run(st, calls, failAt) ==
    LET Body(s, i) ==
            CASE calls[i].op = "Write" -> write(s, calls[i].p, i = failAt)
              [] calls[i].op = "WriteByte" -> writeByte(s, calls[i].p[1], i = failAt)
              [] OTHER -> flush(s, i = failAt)
    IN  ForRange(Body, st, 1, Len(calls))

\* where the sink may fail among n calls: nowhere, at the first, at the
\* middle one, at the last
FailPoints(n) == {0} \cup { k \in {1, (n + 1) \div 2, n} : 1 <= k /\ k <= n }

(***************************************************************************)
(* Spec: one call of Encode(w, m, o), one action per statement of Encode   *)
(* and of writeProgressive.                                                *)
(***************************************************************************)
ErrTooLarge == -1

nComponentOf(img) == IF img.gray THEN 1 ELSE 3

ProgressiveOptions(s) ==
    [isNil |-> FALSE, Quality |-> 50, Progressive |-> TRUE,
     ScanScriptIsNil |-> FALSE, ScanScript |-> s]

ProgressiveNilScript ==
    [isNil |-> FALSE, Quality |-> 50, Progressive |-> TRUE,
     ScanScriptIsNil |-> TRUE, ScanScript |-> <<>>]

\* a custom script in the manner of the README's examples
ExampleScript ==
    <<Scan(-1, 0, 0, 0, 0), Scan(0, 1, 5, 0, 0), Scan(0, 6, 63, 0, 0),
      Scan(1, 1, 63, 0, 0), Scan(2, 1, 63, 0, 0)>>

EncodeScripts ==
    { <<>>,
      ExampleScript,
      <<Scan(0, 0, 0, 0, 0), Scan(0, 1, 9, 0, 0), Scan(0, 10, 63, 0, 0)>>,
      <<Scan(3, 0, 0, 0, 0)>>,
      <<Scan(-1, 0, 5, 0, 0)>>,
      <<Scan(0, 0, 0, 0, 0), Scan(0, 1, 63, 0, 1)>>,
      <<Scan(1, 0, 0, 0, 0)>>,
      <<Scan(0, 0, 5, 0, 0)>>,
      <<Scan(0, 0, 0, 1, 0)>>,
      <<Scan(0, 0, 0, 2, 0), Scan(0, 1, 63, 13, 13)>>,
      <<Scan(-1, 0, 0, 0, 0)>> }

EncodeOptions ==
    {NilOptions, OptionsOfQuality(50), ProgressiveNilScript}
        \cup { ProgressiveOptions(s) : s \in EncodeScripts }

EncodeImages ==
    { [gray |-> TRUE, Dx |-> 8, Dy |-> 8, dct |-> 1],
      [gray |-> TRUE, Dx |-> 9, Dy |-> 8, dct |-> 2],
      [gray |-> FALSE, Dx |-> 16, Dy |-> 9, dct |-> 2],
      [gray |-> FALSE, Dx |-> 17, Dy |-> 16, dct |-> 1],
      [gray |-> TRUE, Dx |-> 65536, Dy |-> 1, dct |-> 1],
      [gray |-> FALSE, Dx |-> 8, Dy |-> 65536, dct |-> 1] }

EncInit ==
    /\ m \in EncodeImages
    /\ o \in EncodeOptions
    /\ pc = "start"
    /\ err = 0
    /\ bits = <<0, 0>>
    /\ nBits = 0
    /\ quant = <<>>
    /\ script = <<>>
    /\ scanIdx = 0
    /\ out = <<>>
    /\ sinkLog = <<>>
    /\ ret = 0
    /\ ScriptIdle
    /\ QuantIdle
    /\ LaterIdle

\* the encoder value a statement starts from
encoderNow == [bits |-> bits, nBits |-> nBits, quant |-> quant, calls |-> <<>>]

\* a statement that left the encoder as e1: its calls meet the sink
Statement(after, next) ==
    \E e1 \in {after} : \E failAt \in FailPoints(Len(e1.calls)) :
        \E st \in {Run([err |-> err, out |-> out, sinkLog |-> sinkLog], e1.calls, failAt)} :
            /\ err' = st.err
            /\ out' = st.out
            /\ sinkLog' = st.sinkLog
            /\ bits' = e1.bits
            /\ nBits' = e1.nBits
            /\ pc' = next

\* the size test with the width alone
tooLarge_WidthOnly(img) == img.Dx >= 65536

\* b.Dx() >= 1<<16 || b.Dy() >= 1<<16
tooLarge(img) == img.Dx >= 65536 \/ img.Dy >= 65536

\* Encode, from the size test to the number of components
EncodeStart ==
    /\ pc = "start"
    /\ IF tooLarge(m)
         THEN /\ ret' = ErrTooLarge
              /\ pc' = "done"
              /\ UNCHANGED quant
         ELSE /\ quant' = initQuant(clipQuality(o))
              /\ pc' = "soi"
              /\ UNCHANGED ret
    /\ UNCHANGED <<m, o, err, bits, nBits, script, scanIdx, out, sinkLog>>
    /\ UNCHANGED <<scriptVars, quantVars, laterVars>>

\* "Write the Start Of Image marker."
EncodeWriteSOI ==
    /\ pc = "soi"
    /\ Statement(eWrite(encoderNow, <<255, 216>>), "dqt")
    /\ UNCHANGED <<m, o, quant, script, scanIdx, ret, scriptVars, quantVars, laterVars>>

\* "Write the quantization tables.", and the choice of the branch
EncodeWriteDQT ==
    /\ pc = "dqt"
    /\ Statement(writeDQT(encoderNow),
                 IF ~o.isNil /\ o.Progressive THEN "progressive sof" ELSE "sof")
    /\ UNCHANGED <<m, o, quant, script, scanIdx, ret, scriptVars, quantVars, laterVars>>

\* e.writeSOF(b.Size(), nComponent, sof0Marker)
EncodeWriteSOF ==
    /\ pc = "sof"
    /\ Statement(writeSOF(encoderNow, [X |-> m.Dx, Y |-> m.Dy], nComponentOf(m), sof0Marker),
                 "dht")
    /\ UNCHANGED <<m, o, quant, script, scanIdx, ret, scriptVars, quantVars, laterVars>>

\* e.writeDHT(nComponent)
EncodeWriteDHT ==
    /\ pc = "dht"
    /\ Statement(writeDHT(encoderNow, nComponentOf(m)), "sos")
    /\ UNCHANGED <<m, o, quant, script, scanIdx, ret, scriptVars, quantVars, laterVars>>

\* e.writeSOS(m)
EncodeWriteSOS ==
    /\ pc = "sos"
    /\ Statement(writeSOS(encoderNow, m), "eoi")
    /\ UNCHANGED <<m, o, quant, script, scanIdx, ret, scriptVars, quantVars, laterVars>>

\* writeProgressive: e.writeSOF(b.Size(), nComponent, sof2Marker)
ProgressiveWriteSOF ==
    /\ pc = "progressive sof"
    /\ Statement(writeSOF(encoderNow, [X |-> m.Dx, Y |-> m.Dy], nComponentOf(m), sof2Marker),
                 "progressive dht")
    /\ UNCHANGED <<m, o, quant, script, scanIdx, ret, scriptVars, quantVars, laterVars>>

\* writeProgressive: e.writeDHT(nComponent)
ProgressiveWriteDHT ==
    /\ pc = "progressive dht"
    /\ Statement(writeDHT(encoderNow, nComponentOf(m)), "script")
    /\ UNCHANGED <<m, o, quant, script, scanIdx, ret, scriptVars, quantVars, laterVars>>

\* the default script for the image type
defaultScript(nComponent) ==
    IF nComponent = 3 THEN DefaultColorScanScript ELSE DefaultGrayscaleScanScript

\* effectiveScript without the fall back to the default script
effectiveScript_NoFallback(opt, nComponent) ==
    IF ~opt.isNil /\ ~opt.ScanScriptIsNil
      THEN opt.ScanScript
      ELSE defaultScript(nComponent)

\* writeProgressive, "Determine which scan script to use" and "Validate the
\* scan script"
effectiveScript(opt, nComponent) ==
    LET chosen == IF ~opt.isNil /\ ~opt.ScanScriptIsNil
                    THEN opt.ScanScript
                    ELSE defaultScript(nComponent)
    IN  IF validateScanScript(chosen, nComponent) # "nil"
          THEN defaultScript(nComponent)
          ELSE chosen

ProgressiveChooseScript ==
    /\ pc = "script"
    /\ script' = effectiveScript(o, nComponentOf(m))
    /\ scanIdx' = 1
    /\ pc' = IF Len(script') = 0 THEN "eoi" ELSE "scan"
    /\ UNCHANGED <<m, o, err, bits, nBits, quant, out, sinkLog, ret>>
    /\ UNCHANGED <<scriptVars, quantVars, laterVars>>

\* writeProgressive, "Execute the scan script": one iteration
ProgressiveWriteScan ==
    /\ pc = "scan"
    /\ LET scan == script[scanIdx]
       IN  Statement(writeProgressiveSOS(encoderNow, m, scan.SpectralStart, scan.SpectralEnd,
                                         scan.SuccessiveApproxHigh, scan.SuccessiveApproxLow,
                                         scan.Component),
                     IF scanIdx = Len(script) THEN "eoi" ELSE "scan")
    /\ scanIdx' = scanIdx + 1
    /\ UNCHANGED <<m, o, quant, script, ret, scriptVars, quantVars, laterVars>>

\* "Write the End Of Image marker."
EncodeWriteEOI ==
    /\ pc = "eoi"
    /\ Statement(eWrite(encoderNow, <<255, 217>>), "flush")
    /\ UNCHANGED <<m, o, quant, script, scanIdx, ret, scriptVars, quantVars, laterVars>>

\* e.flush()
EncodeFlush ==
    /\ pc = "flush"
    /\ Statement(eFlush(encoderNow), "return")
    /\ UNCHANGED <<m, o, quant, script, scanIdx, ret, scriptVars, quantVars, laterVars>>

\* return e.err
EncodeReturn ==
    /\ pc = "return"
    /\ ret' = err
    /\ pc' = "done"
    /\ UNCHANGED <<m, o, err, bits, nBits, quant, script, scanIdx, out, sinkLog>>
    /\ UNCHANGED <<scriptVars, quantVars, laterVars>>

Next ==
    \/ EncodeStart
    \/ EncodeWriteSOI
    \/ EncodeWriteDQT
    \/ EncodeWriteSOF
    \/ EncodeWriteDHT
    \/ EncodeWriteSOS
    \/ ProgressiveWriteSOF
    \/ ProgressiveWriteDHT
    \/ ProgressiveChooseScript
    \/ ProgressiveWriteScan
    \/ EncodeWriteEOI
    \/ EncodeFlush
    \/ EncodeReturn

Spec == EncInit /\ [][Next]_vars

(***************************************************************************)
(* The byte stream as a reader sees it: SOI, marker segments with their    *)
(* two length bytes, the entropy-coded data after an SOS segment (up to    *)
(* the first FF that is not followed by 00), EOI.  A segment is            *)
(* [marker, at, len, data]: its marker byte, the position of its FF, its   *)
(* length field, and the number of bytes of entropy-coded data after it.   *)
(***************************************************************************)
addSegment(st, marker, at, mode) ==
    [st EXCEPT !.segs = Append(@, [marker |-> marker, at |-> at, len |-> 0, data |-> 0]),
               !.mode = mode]

\* the byte k at position i, after an FF that starts a marker
markerByte(st, k, i) ==
    IF k = 216 \/ k = 217 THEN addSegment(st, k, i - 1, "marker")
    ELSE addSegment(st, k, i - 1, "len1")

afterPayload(st) == IF st.segs[Len(st.segs)].marker = 218 THEN "entropy" ELSE "marker"

parseStep(st, s, i) ==
    CASE st.mode = "marker" ->
           [st EXCEPT !.mode = IF s[i] = 255 THEN "id" ELSE "bad"]
      [] st.mode = "id" -> markerByte(st, s[i], i)
      [] st.mode = "len1" ->
           [st EXCEPT !.segs[Len(st.segs)].len = 256 * s[i], !.mode = "len2"]
      [] st.mode = "len2" ->
           [st EXCEPT !.segs[Len(st.segs)].len = @ + s[i],
                      !.left = st.segs[Len(st.segs)].len + s[i] - 2,
                      !.mode = IF st.segs[Len(st.segs)].len + s[i] < 2 THEN "bad"
                               ELSE IF st.segs[Len(st.segs)].len + s[i] = 2
                                 THEN afterPayload(st)
                               ELSE "payload"]
      [] st.mode = "payload" ->
           [st EXCEPT !.left = @ - 1,
                      !.mode = IF st.left = 1 THEN afterPayload(st) ELSE "payload"]
      [] st.mode = "entropy" ->
           IF s[i] = 255 THEN [st EXCEPT !.mode = "entropyFF"]
           ELSE [st EXCEPT !.segs[Len(st.segs)].data = @ + 1]
      [] st.mode = "entropyFF" ->
           IF s[i] = 0
             THEN [st EXCEPT !.segs[Len(st.segs)].data = @ + 2, !.mode = "entropy"]
             ELSE markerByte(st, s[i], i)
      [] OTHER -> st

\* the segments of s; mode is "marker" at the end iff s is a whole number of
\* segments
parseStream(s) ==
    LET Body(st, i) == parseStep(st, s, i)
    IN  ForRange(Body, [segs |-> <<>>, mode |-> "marker", left |-> 0], 1, Len(s))

markersOf(p) == [i \in 1..Len(p.segs) |-> p.segs[i].marker]

\* the bytes of a segment after its length field
payloadOf(s, sg) == SubSeq(s, sg.at + 4, sg.at + 1 + sg.len)

IsSOS(sg) == sg.marker = 218

\* the SOS segments, in stream order
sosOf(p) == SelectSeq(p.segs, IsSOS)

\* the SOS payload of a scan descriptor: the component list, then the
\* spectral-start byte, the spectral-end byte and the byte ah<<4 | al
descriptorPayload(d) ==
    (IF d.Component = -1
       THEN <<3, 1, 0, 2, 17, 3, 17>>
       ELSE <<1, d.Component + 1, IF d.Component = 0 THEN 0 ELSE 17>>)
    \o <<d.SpectralStart, d.SpectralEnd,
         16 * d.SuccessiveApproxHigh + d.SuccessiveApproxLow>>

(***************************************************************************)
(* The decoder: the checks processSOS makes on an SOS header.  d is the    *)
(* decoder after the SOF segment: [nComp, comp, progressive, baseline],    *)
(* comp[j + 1] being d.comp[j] = [c, h, v].  processSOF and maxTh are not  *)
(* in the repository's files.                                              *)
(***************************************************************************)
maxTh == 3

\* the decoder state processSOF leaves for a SOF payload
decoderAfterSOF(marker, payload) ==
    [nComp |-> payload[6],
     comp |-> [j \in 1..payload[6] |->
                 [c |-> payload[4 + 3 * j],
                  h |-> payload[5 + 3 * j] \div 16,
                  v |-> payload[5 + 3 * j] % 16]],
     progressive |-> marker = sof2Marker,
     baseline |-> marker = sof0Marker]

\* for j, comp := range d.comp[:d.nComp] { if cs == comp.c { compIndex = j } }
compIndexOf(d, cs) ==
    IF \E j \in 1..d.nComp : d.comp[j].c = cs
      THEN (CHOOSE j \in 1..d.nComp :
              /\ d.comp[j].c = cs
              /\ \A k \in (j + 1)..d.nComp : d.comp[k].c # cs) - 1
      ELSE -1

\* one iteration of "for i := 0; i < nComp; i++": st is [err, compIndex, totalHV]
sosComponent(st, d, tmp, i) ==
    IF st.err # "nil" THEN st
    ELSE Only({ IF ci < 0 THEN [st EXCEPT !.err = "unknown component selector"]
                ELSE IF \E j \in 1..Len(st.compIndex) : st.compIndex[j] = ci
                  THEN [st EXCEPT !.err = "repeated component selector"]
                ELSE IF tmp[3 + 2 * i] \div 16 > maxTh
                        \/ (d.baseline /\ tmp[3 + 2 * i] \div 16 > 1)
                  THEN [st EXCEPT !.err = "bad Td value"]
                ELSE IF tmp[3 + 2 * i] % 16 > maxTh
                        \/ (d.baseline /\ tmp[3 + 2 * i] % 16 > 1)
                  THEN [st EXCEPT !.err = "bad Ta value"]
                ELSE [err |-> "nil",
                      compIndex |-> Append(st.compIndex, ci),
                      totalHV |-> st.totalHV + d.comp[ci + 1].h * d.comp[ci + 1].v] :
                  ci \in {compIndexOf(d, tmp[2 + 2 * i])} })

\* processSOS, from its start to the checks of the progressive parameters:
\* "nil", or the FormatError returned.  tmp[k + 1] is d.tmp[k].
processSOSHeader(d, n, tmp) ==
    IF d.nComp = 0 THEN "missing SOF marker"
    ELSE IF n < 6 \/ 4 + 2 * d.nComp < n \/ n % 2 # 0 THEN "SOS has wrong length"
    ELSE IF n # 4 + 2 * tmp[1] THEN "SOS length inconsistent with number of components"
    ELSE Only({
        IF st.err # "nil" THEN st.err
        ELSE IF d.nComp > 1 /\ st.totalHV > 10 THEN "total sampling factors too large"
        ELSE IF ~d.progressive THEN "nil"
        ELSE LET nComp == tmp[1]
                 zigStart == tmp[2 + 2 * nComp]
                 zigEnd == tmp[3 + 2 * nComp]
                 ah == tmp[4 + 2 * nComp] \div 16
                 al == tmp[4 + 2 * nComp] % 16
             IN  IF (zigStart = 0 /\ zigEnd # 0) \/ zigStart > zigEnd \/ blockSize <= zigEnd
                   THEN "bad spectral selection bounds"
                 ELSE IF zigStart # 0 /\ nComp # 1
                   THEN "progressive AC coefficients for more than one component"
                 ELSE IF ah # 0 /\ ah # al + 1
                   THEN "bad successive approximation values"
                 ELSE "nil" :
        st \in { LET Body(t, i) == sosComponent(t, d, tmp, i)
                 IN  ForRange(Body, [err |-> "nil", compIndex |-> <<>>, totalHV |-> 0],
                              0, tmp[1] - 1) } })

(***************************************************************************)
(* Claims about Encode, under Spec.                                        *)
(***************************************************************************)
\* Encode has returned nil
Succeeded == pc = "done" /\ ret = 0

IsProgressive == ~o.isNil /\ o.Progressive

\* the SOF marker the options ask for
sofMarkerOf(opt) == IF opt.isNil \/ ~opt.Progressive THEN 192 ELSE 194

\* the check the decoder makes of the SOS segment sg of the stream s, whose
\* third segment is the SOF
sosAccepted(s, p, sg) ==
    processSOSHeader(decoderAfterSOF(p.segs[3].marker, payloadOf(s, p.segs[3])),
                     sg.len - 2, payloadOf(s, sg)) = "nil"

\* C16: Encode of an image whose width or height is 65536 or more calls the
\* sink not once, so that nothing reaches it, and returns the error.
C16_TooLargeWritesNothing ==
    (m.Dx >= 65536 \/ m.Dy >= 65536) =>
        /\ sinkLog = <<>>
        /\ out = <<>>
        /\ pc \in {"start", "done"}
        /\ pc = "done" => ret = ErrTooLarge

\* C16 witness: Encode of an image 8 wide and 65536 high has returned
C16_Witness ==
    /\ m.Dx = 8 /\ m.Dy = 65536
    /\ pc = "done"
    /\ ret = ErrTooLarge
    /\ sinkLog = <<>>

\* C1: once a Write, WriteByte or Flush of the sink has returned an error,
\* the encoder calls the sink no more (the failed call is the last entry of
\* sinkLog), e.err is that error and stays so, and Encode returns it.
C1_FirstErrorIsFinal ==
    /\ \A i \in 1..(Len(sinkLog) - 1) : sinkLog[i].res = 0
    /\ err = (IF sinkLog = <<>> THEN 0 ELSE sinkLog[Len(sinkLog)].res)
    /\ (pc = "done" /\ ret # ErrTooLarge) => ret = err

\* C1 witness: Encode has returned the error of a WriteByte that failed in
\* the entropy-coded data of a scan, with the statements after it passed
C1_Witness ==
    /\ pc = "done"
    /\ ret > 0
    /\ ret = Len(sinkLog)
    /\ sinkLog[ret].op = "WriteByte"
    /\ sinkLog[ret].res = ret

\* C2: the output of a successful Encode is SOI, one DQT segment with both
\* tables, one SOF segment (SOF0 for nil options or Progressive false, SOF2
\* for Progressive true), one DHT segment, one or more SOS segments each
\* followed by entropy-coded data, and EOI as its last two bytes; baseline
\* mode writes exactly one SOS.
C2_StreamOrder ==
    Succeeded =>
        \A p \in {parseStream(out)} :
            /\ p.mode = "marker"
            /\ \E k \in 1..(Len(p.segs) - 5) :
                   markersOf(p) = <<216, 219, sofMarkerOf(o), 196>>
                                      \o [i \in 1..k |-> 218] \o <<217>>
            /\ p.segs[2].len = 2 + 2 * 65
            /\ \A i \in 1..Len(p.segs) : IsSOS(p.segs[i]) => p.segs[i].data > 0
            /\ ~IsProgressive => Len(sosOf(p)) = 1
            /\ SubSeq(out, Len(out) - 1, Len(out)) = <<255, 217>>

\* C2 witness: a successful progressive Encode of a colour image with the
\* five scans of the example script
C2_Witness ==
    /\ Succeeded
    /\ IsProgressive
    /\ ~m.gray
    /\ script = ExampleScript
    /\ Len(sosOf(parseStream(out))) = 5

\* C3: a successful progressive Encode writes one SOS segment per descriptor
\* of the effective script, in order; the i-th carries the descriptor's
\* component list, spectral-start byte, spectral-end byte and ah<<4 | al; the
\* entropy-coded data of scan i ends where the header of scan i+1 starts.
C3_OneSOSPerDescriptor ==
    (Succeeded /\ IsProgressive) =>
        \A p \in {parseStream(out)} : \A sos \in {sosOf(p)} :
            \A eff \in {effectiveScript(o, nComponentOf(m))} :
                /\ Len(sos) = Len(eff)
                /\ \A i \in 1..Len(sos) :
                       payloadOf(out, sos[i]) = descriptorPayload(eff[i])
                /\ \A i \in 1..(Len(sos) - 1) :
                       sos[i + 1].at = sos[i].at + 2 + sos[i].len + sos[i].data

\* C3 witness: a successful Encode of an accepted two-scan script whose
\* successive-approximation fields are not zero
C3_Witness ==
    /\ Succeeded
    /\ IsProgressive
    /\ script = <<Scan(0, 0, 0, 2, 0), Scan(0, 1, 63, 13, 13)>>
    /\ Len(sosOf(parseStream(out))) = 2

\* the options carry a script that validateScanScript rejects, or none
FallsBack ==
    /\ IsProgressive
    /\ \/ o.ScanScriptIsNil
       \/ validateScanScript(o.ScanScript, nComponentOf(m)) # "nil"

\* C4: with a ScanScript that fails validateScanScript (an empty one too), or
\* a nil one, Encode returns no error but the sink's, and a successful Encode
\* has written exactly the scans of the default script for the component
\* count, each with a header the decoder accepts.
C4_InvalidScriptFallsBack ==
    (pc = "done" /\ ret # ErrTooLarge /\ FallsBack) =>
        /\ ret # 0 => ret = sinkLog[Len(sinkLog)].res
        /\ ret = 0 =>
             \A p \in {parseStream(out)} : \A sos \in {sosOf(p)} :
                 \A def \in {IF m.gray THEN DefaultGrayscaleScanScript
                                       ELSE DefaultColorScanScript} :
                     /\ p.mode = "marker"
                     /\ Len(sos) = Len(def)
                     /\ \A i \in 1..Len(sos) :
                            /\ payloadOf(out, sos[i]) = descriptorPayload(def[i])
                            /\ sosAccepted(out, p, sos[i])

\* C4 witness: a successful Encode whose options carried a script that is
\* not nil and was rejected
C4_Witness ==
    /\ Succeeded
    /\ FallsBack
    /\ ~o.ScanScriptIsNil
    /\ o.ScanScript # script
    /\ Len(sosOf(parseStream(out))) = Len(script)

\* the options carry a script that validateScanScript accepts
AcceptedScript ==
    /\ IsProgressive
    /\ ~o.ScanScriptIsNil
    /\ validateScanScript(o.ScanScript, nComponentOf(m)) = "nil"

\* C6: for every script validateScanScript accepts, every SOS segment of a
\* successful Encode passes the header checks of the decoder's processSOS,
\* and its entropy-coded data is more than the padding of a scan that coded
\* no block.
C6_AcceptedScriptsDecode ==
    (Succeeded /\ AcceptedScript) =>
        \A p \in {parseStream(out)} : \A sos \in {sosOf(p)} :
            \A i \in 1..Len(sos) :
                /\ sosAccepted(out, p, sos[i])
                /\ SubSeq(out, sos[i].at + 2 + sos[i].len,
                          sos[i].at + 1 + sos[i].len + sos[i].data) # <<255, 0>>

\* C7: the successive-approximation byte of every SOS header a successful
\* Encode writes is 0, whatever the options.
C7_OnlySpectralSelection ==
    Succeeded =>
        \A p \in {parseStream(out)} : \A sos \in {sosOf(p)} :
            \A i \in 1..Len(sos) :
                payloadOf(out, sos[i])[sos[i].len - 2] = 0

(***************************************************************************)
(* SpecEmit: the entropy-coded data of the scans of one encoder.  Each     *)
(* scan is a bounded sequence of calls of emit, which is the only way the  *)
(* encoder writes entropy-coded data, followed by the end of writeSOS or   *)
(* of writeProgressiveSOS.  xBitsIn records the bits handed to emit.       *)
(***************************************************************************)
MaxEmits == 3
MaxScans == 2

\* the (bits, nBits) handed to emit: nBits <= 16 and bits < 1<<nBits
EmitInputs ==
    { <<0, 1>>, <<1, 1>>, <<5, 3>>, <<127, 7>>, <<255, 8>>, <<1023, 10>>,
      <<0, 16>>, <<65280, 16>>, <<65535, 16>> }

\* the n bits of b, most significant first
bitsOf(b, n) == [k \in 1..n |-> (b \div Pow2(n - k)) % 2]

\* bit k (1 is the most significant) of a uint32
bitOfW32(w, k) ==
    IF k <= 16 THEN (w[1] \div Pow2(16 - k)) % 2 ELSE (w[2] \div Pow2(32 - k)) % 2

\* the bytes the calls of a scan write
bytesOfCalls(calls) == [k \in 1..Len(calls) |-> calls[k].p[1]]

\* s without the 0x00 bytes that follow a 0xff byte
destuff(s) ==
    LET Body(acc, k) ==
            IF k > 1 /\ s[k - 1] = 255 /\ s[k] = 0 THEN acc ELSE Append(acc, s[k])
    IN  ForRange(Body, <<>>, 1, Len(s))

\* the bits of a sequence of bytes
bitsOfBytes(s) == [k \in 1..(8 * Len(s)) |-> (s[(k + 7) \div 8] \div Pow2(7 - ((k - 1) % 8))) % 2]

EmitInit ==
    /\ xE = [bits |-> <<0, 0>>, nBits |-> 0, quant |-> <<>>, calls |-> <<>>]
    /\ xBitsIn = <<>>
    /\ xData = 0
    /\ xN = 0
    /\ xScan = 1
    /\ xPc = "scan"
    /\ ScriptIdle
    /\ QuantIdle
    /\ EncIdle
    /\ HuffIdle
    /\ BlocksIdle
    /\ DecodeIdle
    /\ CallIdle

notEmitVars == <<scriptVars, quantVars, encVars, huffVars, blockVars, decVars, callVars>>

\* e.emit(bits, nBits) in a block of the scan
EmitData ==
    /\ xPc = "scan"
    /\ xN < MaxEmits
    /\ \E in \in EmitInputs :
          /\ xE' = emit(xE, in[1], in[2])
          /\ xBitsIn' = xBitsIn \o bitsOf(in[1], in[2])
          /\ xData' = xData + in[2]
    /\ xN' = xN + 1
    /\ UNCHANGED <<xScan, xPc, notEmitVars>>

\* the end of writeSOS: "Pad the last byte with 1's."
EmitEndBaseline ==
    /\ xPc = "scan"
    /\ xScan = 1
    /\ xE' = emit(xE, 127, 7)
    /\ xBitsIn' = xBitsIn \o bitsOf(127, 7)
    /\ xPc' = "baseline end"
    /\ UNCHANGED <<xData, xN, xScan, notEmitVars>>

\* the end of writeProgressiveSOS, from "Pad the last byte with 1's." on
EmitEndProgressive ==
    /\ xPc = "scan"
    /\ \E e4 \in {emit(xE, 127, 7)} :
          /\ xE' = alignAndReset(e4)
          /\ xBitsIn' = xBitsIn \o bitsOf(127, 7)
                            \o (IF e4.nBits > 0 THEN [k \in 1..(8 - e4.nBits) |-> 1] ELSE <<>>)
    /\ xPc' = "progressive end"
    /\ UNCHANGED <<xData, xN, xScan, notEmitVars>>

\* the next iteration of "for _, scan := range script": the encoder as the
\* scan before left it
EmitNextScan ==
    /\ xPc = "progressive end"
    /\ xScan < MaxScans
    /\ xE' = [xE EXCEPT !.calls = <<>>]
    /\ xBitsIn' = <<>>
    /\ xData' = 0
    /\ xN' = 0
    /\ xScan' = xScan + 1
    /\ xPc' = "scan"
    /\ UNCHANGED notEmitVars

NextEmit ==
    \/ EmitData
    \/ EmitEndBaseline
    \/ EmitEndProgressive
    \/ EmitNextScan

SpecEmit == EmitInit /\ [][NextEmit]_vars

\* the bits still in the accumulator: the top nBits bits of bits
pendingBits(e) == [k \in 1..e.nBits |-> bitOfW32(e.bits, k)]

\* C12: in the entropy-coded data of a scan, padding included, every 0xff
\* byte is followed at once by a 0x00 byte, and the data without those 0x00
\* bytes, followed by the bits still in the accumulator, is the bit string
\* that was emitted.
C12_StuffedAndRestorable ==
    \A s \in {bytesOfCalls(xE.calls)} :
        /\ \A k \in 1..Len(s) : s[k] = 255 => (k < Len(s) /\ s[k + 1] = 0)
        /\ bitsOfBytes(destuff(s)) \o pendingBits(xE) = xBitsIn

\* C12 witness: a scan has ended whose data holds a 0xff byte that came from
\* data bits, not from the padding
C12_Witness ==
    /\ xPc = "baseline end"
    /\ xData >= 16
    /\ \E k \in 1..2 : bytesOfCalls(xE.calls)[k] = 255

\* C30: after any sequence of calls of emit within its precondition, at most
\* 7 bits are pending, e.bits is 0 below its top e.nBits bits, and no bit
\* was lost: the bytes written without the stuffed 0x00 hold 8 bits each of
\* the bits emitted, in order, and the pending bits are the rest.
C30_AccumulatorInvariant ==
    /\ xE.nBits \in 0..7
    /\ \A k \in (xE.nBits + 1)..32 : bitOfW32(xE.bits, k) = 0
    /\ \A w \in {destuff(bytesOfCalls(xE.calls))} :
          /\ 8 * Len(w) + xE.nBits = Len(xBitsIn)
          /\ bitsOfBytes(w) = SubSeq(xBitsIn, 1, 8 * Len(w))
          /\ pendingBits(xE) = SubSeq(xBitsIn, 8 * Len(w) + 1, Len(xBitsIn))

\* C30 witness: three groups of 16, 3 and 10 bits were emitted, 29 bits in
\* all, of which 5 are pending
C30_Witness ==
    /\ xPc = "scan"
    /\ xN = 3
    /\ Len(xBitsIn) = 29
    /\ xE.nBits = 5
    /\ Len(xE.calls) >= 3

\* C13: when writeProgressiveSOS has returned, bits and nBits are 0, the
\* bytes written hold every data bit of the scan followed by 1-bits only, and
\* nothing is left for the next scan.
C13_ScanEndsAligned ==
    xPc = "progressive end" =>
        /\ xE.bits = <<0, 0>>
        /\ xE.nBits = 0
        /\ \A w \in {bitsOfBytes(destuff(bytesOfCalls(xE.calls)))} :
              /\ Len(w) >= xData
              /\ SubSeq(w, 1, xData) = SubSeq(xBitsIn, 1, xData)
              /\ \A k \in (xData + 1)..Len(w) : w[k] = 1

\* C13 witness: a second scan has ended after a first one whose data did not
\* end on a byte boundary
C13_Witness ==
    /\ xPc = "progressive end"
    /\ xScan = 2
    /\ xData % 8 = 3

\* the number the bits w spell, most significant first
valueOfBits(w) == SumSeq([k \in 1..Len(w) |-> w[k] * Pow2(Len(w) - k)])

\* the bytes s as emit writes them: a 0x00 after every 0xff
stuffed(s) == Flatten([k \in 1..Len(s) |-> IF s[k] = 255 THEN <<255, 0>> ELSE <<s[k]>>])

\* the bytes the scan wrote after the bytes made of data bits only
scanTail ==
    LET whole == xData - (xData % 8)
        data == [k \in 1..(whole \div 8) |->
                    valueOfBits(SubSeq(xBitsIn, 8 * k - 7, 8 * k))]
        all == bytesOfCalls(xE.calls)
    IN  SubSeq(all, Len(stuffed(data)) + 1, Len(all))

\* the byte made of the p pending data bits of the scan followed by 1-bits
lastDataByte ==
    LET p == xData % 8
    IN  valueOfBits(SubSeq(xBitsIn, xData - p + 1, xData) \o [k \in 1..(8 - p) |-> 1])

\* C31: a progressive scan that leaves p pending data bits ends, when
\* p >= 1, with one byte made of the p data bits followed by 1-bits (with its
\* stuffed 0x00 if that byte is 0xff), and then, unless p = 1, with the byte
\* pair FF 00.
C31_EndOfScanBytes ==
    xPc = "progressive end" =>
        scanTail = (IF xData % 8 >= 1 THEN stuffed(<<lastDataByte>>) ELSE <<>>)
                       \o (IF xData % 8 # 1 THEN <<255, 0>> ELSE <<>>)

\* C31 witness: a scan with 3 pending data bits, not all of them 1, has ended
\* with three bytes after its data bytes
C31_Witness ==
    /\ xPc = "progressive end"
    /\ xData % 8 = 3
    /\ lastDataByte # 255
    /\ Len(scanTail) = 3

(***************************************************************************)
(* SpecHuff: one value of one of the four Huffman specifications, the code *)
(* emitHuff emits for it, and a decoder that reads that code bit by bit.   *)
(***************************************************************************)
\* the values theHuffmanSpec[h].value lists
listedValues(h) ==
    { theHuffmanSpec[h + 1].value[k] : k \in 1..Len(theHuffmanSpec[h + 1].value) }

\* x := theHuffmanLUT[h][value]: the codeword x&(1<<24-1) and its size x>>24,
\* the two arguments of the emit of emitHuff
codeOf(h, value) ==
    Only({ [len |-> x \div Pow2(24), code |-> x % Pow2(24)] :
             x \in {theHuffmanLUT[h][value]} })

\* the first n bits of w as a number
prefixOf(w, n) ==
    LET Body(acc, k) == 2 * acc + w[k]
    IN  ForRange(Body, 0, 1, n)

\* the values whose code is the first n bits of w
matches(h, w, n) ==
    { v \in listedValues(h) :
          \A c \in {codeOf(h, v)} : c.len = n /\ c.code = prefixOf(w, n) }

\* decoding w bit by bit: the values of the shortest prefix of w that is a
\* code of table h
decodeBitwise(h, w) ==
    LET hit == { n \in 1..Len(w) : matches(h, w, n) # {} }
    IN  IF hit = {} THEN {}
        ELSE matches(h, w, CHOOSE n \in hit : \A n2 \in hit : n <= n2)

\* the bits that follow a code in the stream
HuffTails == { <<>>, <<0>>, <<1>>, <<0, 1>>, <<1, 0, 1>> }

HuffInit ==
    /\ hH \in 0..(nHuffIndex - 1)
    /\ hValue \in listedValues(hH)
    /\ hCode = [len |-> 0, code |-> 0]
    /\ hDecoded = -1
    /\ hPc = "start"
    /\ ScriptIdle
    /\ QuantIdle
    /\ EncIdle
    /\ EmitIdle
    /\ BlocksIdle
    /\ DecodeIdle
    /\ CallIdle

notHuffVars == <<scriptVars, quantVars, encVars, emitVars, blockVars, decVars, callVars>>

\* e.emitHuff(h, value)
HuffEmit ==
    /\ hPc = "start"
    /\ hCode' = codeOf(hH, hValue)
    /\ hPc' = "emitted"
    /\ UNCHANGED <<hH, hValue, hDecoded, notHuffVars>>

\* the decoder reads the code, and what follows it, bit by bit
HuffDecode ==
    /\ hPc = "emitted"
    /\ hCode.len \in 1..16
    /\ \E tail \in HuffTails :
          hDecoded' \in decodeBitwise(hH, bitsOf(hCode.code % Pow2(hCode.len), hCode.len) \o tail)
    /\ hPc' = "decoded"
    /\ UNCHANGED <<hH, hValue, hCode, notHuffVars>>

NextHuff ==
    \/ HuffEmit
    \/ HuffDecode

SpecHuff == HuffInit /\ [][NextHuff]_vars

\* code a is a prefix of code b (or equal to it)
isPrefix(a, b) == a.len <= b.len /\ b.code \div Pow2(b.len - a.len) = a.code

\* C14: in each of the four tables every listed value has a code of 1 to 16
\* bits, below 2^length, that no other listed value shares and that neither
\* is a prefix of nor has as a prefix the code of another listed value;
\* decoding the code bit by bit gives the value back.
C14_CanonicalPrefixFree ==
    hPc # "start" =>
        /\ hCode.len \in 1..16
        /\ hCode.code < Pow2(hCode.len)
        /\ \A w \in listedValues(hH) \ {hValue} :
              \A c \in {codeOf(hH, w)} : ~isPrefix(c, hCode) /\ ~isPrefix(hCode, c)
        /\ hPc = "decoded" => hDecoded = hValue

\* C14 witness: a 16-bit code of the luminance AC table was emitted and
\* decoded
C14_Witness ==
    /\ hPc = "decoded"
    /\ hH = huffIndexLuminanceAC
    /\ hCode.len = 16
    /\ hDecoded = hValue

(***************************************************************************)
(* SpecBlocks: the blocks one scan of the encoder visits, and the blocks   *)
(* the decoder's processSOS visits for the SOF and SOS headers the encoder *)
(* writes for that image and scan.                                         *)
(***************************************************************************)
MaxSide == 33

\* d.height and d.width as processSOF reads them from the SOF payload
sofHeight(payload) == 256 * payload[2] + payload[3]
sofWidth(payload) == 256 * payload[4] + payload[5]

\* scan[i].compIndex for i < nComp, or <<>> when processSOS returns an error
\* before its loops
sosCompIndex(d, n, tmp) ==
    IF processSOSHeader(d, n, tmp) # "nil" THEN <<>>
    ELSE LET Body(t, i) == sosComponent(t, d, tmp, i)
         IN  ForRange(Body, [err |-> "nil", compIndex |-> <<>>, totalHV |-> 0],
                      0, tmp[1] - 1).compIndex

\* the iterations <<compIndex, j>> of the loops over i and j in one MCU
mcuSlots(d, scan) ==
    Flatten([i \in 1..Len(scan) |->
               [j \in 1..(d.comp[scan[i] + 1].h * d.comp[scan[i] + 1].v) |->
                   <<scan[i], j - 1>>]])

\* one iteration of the loop over j of processSOS, up to the decoding of the
\* block: st is [seq, blockCount], seq the blocks <<compIndex, bx, by>>
\* reached so far
decoderBlock(st, d, width, height, nComp, mxx, mx, my, slot) ==
    LET hi == d.comp[slot[1] + 1].h
        vi == d.comp[slot[1] + 1].v
        j == slot[2]
    IN  IF nComp # 1
          THEN [st EXCEPT !.seq = Append(@, <<slot[1], hi * mx + (j % hi), vi * my + (j \div hi)>>)]
          ELSE LET q == mxx * hi
                   bx == st.blockCount % q
                   by == st.blockCount \div q
               IN  [seq |-> IF bx * 8 >= width \/ by * 8 >= height
                              THEN st.seq
                              ELSE Append(st.seq, <<slot[1], bx, by>>),
                    blockCount |-> st.blockCount + 1]

\* the blocks the loops over my, mx, i and j of processSOS reach, in order
decoderBlocks(d, width, height, scan) ==
    IF scan = <<>> THEN <<>>
    ELSE LET mxx == (width + 8 * d.comp[1].h - 1) \div (8 * d.comp[1].h)
             myy == (height + 8 * d.comp[1].v - 1) \div (8 * d.comp[1].v)
             slots == mcuSlots(d, scan)
             Body(st, k) ==
                 decoderBlock(st, d, width, height, Len(scan), mxx,
                              (k \div Len(slots)) % mxx, (k \div Len(slots)) \div mxx,
                              slots[(k % Len(slots)) + 1])
         IN  ForRange(Body, [seq |-> <<>>, blockCount |-> 0],
                      0, mxx * myy * Len(slots) - 1).seq

\* the SOF payload Encode writes for the image
sofPayloadOf(img) ==
    SubSeq(sofBuf([X |-> img.Dx, Y |-> img.Dy], IF img.gray THEN 1 ELSE 3),
           1, IF img.gray THEN 9 ELSE 15)

\* the SOS segment after its marker and length that the scan writes: writeSOS
\* for a baseline image; writeProgressiveSOS with the DC band for all
\* components and the band 1..63 for one component
sosPayloadOf(img, progressive, component) ==
    IF ~progressive
      THEN SubSeq(IF img.gray THEN sosHeaderY ELSE sosHeaderYCbCr, 5,
                  IF img.gray THEN 10 ELSE 14)
      ELSE Only({ SubSeq(h, 5, Len(h)) : h \in {sosHeaderShort(component)} })
             \o (IF component = -1 THEN progressiveScript(0, 0, 0, 0)
                                   ELSE progressiveScript(1, 63, 0, 0))

BlocksInit ==
    /\ tM \in [gray : BOOLEAN, Dx : 1..MaxSide, Dy : 1..MaxSide]
    /\ tProgressive \in BOOLEAN
    /\ tComponent \in (IF ~tProgressive THEN {-1}
                       ELSE IF tM.gray THEN {0}
                       ELSE {-1, 0, 1, 2})
    /\ tEnc = <<>>
    /\ tDec = <<>>
    /\ tPc = "start"
    /\ ScriptIdle
    /\ QuantIdle
    /\ EncIdle
    /\ EmitIdle
    /\ HuffIdle
    /\ DecodeIdle
    /\ CallIdle

notBlockVars == <<scriptVars, quantVars, encVars, emitVars, huffVars, decVars, callVars>>

\* e.processImageBlocks(m, component, processor)
BlocksEncode ==
    /\ tPc = "start"
    /\ tEnc' = scanBlocks(tM, tComponent)
    /\ tPc' = "encoded"
    /\ UNCHANGED <<tM, tProgressive, tComponent, tDec, notBlockVars>>

\* d.processSOS(n) after the SOF segment of the image
BlocksDecode ==
    /\ tPc = "encoded"
    /\ \E d \in {decoderAfterSOF(IF tProgressive THEN sof2Marker ELSE sof0Marker,
                                 sofPayloadOf(tM))},
          tmp \in {sosPayloadOf(tM, tProgressive, tComponent)} :
          tDec' = decoderBlocks(d, sofWidth(sofPayloadOf(tM)), sofHeight(sofPayloadOf(tM)),
                                sosCompIndex(d, Len(tmp), tmp))
    /\ tPc' = "decoded"
    /\ UNCHANGED <<tM, tProgressive, tComponent, tEnc, notBlockVars>>

NextBlocks ==
    \/ BlocksEncode
    \/ BlocksDecode

SpecBlocks == BlocksInit /\ [][NextBlocks]_vars

\* C15: for every image size and every kind of scan (baseline; progressive
\* with all components, Y, Cb or Cr; grayscale) the blocks the encoder visits
\* are, in the same order, the blocks the decoder visits for the headers the
\* encoder writes.
C15_SameBlockOrder ==
    tPc = "decoded" => tDec = tEnc

\* C15 witness: a Y-only scan of a 24x16 colour image, where the decoder
\* skips the blocks that are inside the MCUs but outside the image
C15_Witness ==
    /\ tPc = "decoded"
    /\ ~tM.gray /\ tM.Dx = 24 /\ tM.Dy = 16
    /\ tProgressive /\ tComponent = 0
    /\ Len(tDec) = 6
    /\ tDec = tEnc

(***************************************************************************)
(* The decoder: the blocks of a scan.  The entropy decoder (decodeHuffman, *)
(* receiveExtend, decodeBit, decodeBits) is not in the repository's files: *)
(* each of its calls takes the next element of the sequence in, the values *)
(* it returns in order; the sequence running out is the error of the       *)
(* reader.  A block state s is [b, eobRun, dc, in, err]: the block b (a    *)
(* function on 0..63), d.eobRun, the array dc (dc[c + 1] for component c), *)
(* and err, "nil" or the error processSOS returns.                         *)
(***************************************************************************)
errUnexpectedEOF == "unexpected EOF"

\* value, err := d.decodeHuffman(h) and the like: the value read
tokenOf(s) == Head(s.in)

\* the state after one value was read
afterToken(s) == [s EXCEPT !.in = Tail(@)]

\* the reader has nothing left
failEOF(s) == [s EXCEPT !.err = errUnexpectedEOF]

\* "Decode the DC coefficient, as specified in section F.2.2.1.": value,
\* then dcDelta, for which receiveExtend reads nothing when value is 0
decodeDC(s, compIndex, al) ==
    IF s.in = <<>> THEN failEOF(s)
    ELSE IF tokenOf(s) > 16 THEN [afterToken(s) EXCEPT !.err = "excessive DC component"]
    ELSE IF tokenOf(s) # 0 /\ Len(s.in) < 2 THEN failEOF(afterToken(s))
    ELSE Only({ [b |-> [s.b EXCEPT ![0] = dcNew * Pow2(al)],
                 eobRun |-> s.eobRun,
                 dc |-> [s.dc EXCEPT ![compIndex + 1] = dcNew],
                 in |-> IF tokenOf(s) = 0 THEN Tail(s.in) ELSE Tail(Tail(s.in)),
                 err |-> "nil"] :
                  dcNew \in {s.dc[compIndex + 1] + (IF tokenOf(s) = 0 THEN 0 ELSE s.in[2])} })

RECURSIVE decodeAC(_, _, _, _)

\* one iteration of the loop of the AC coefficients after its decodeHuffman:
\* s1 is the state after the value val0<<4 | val1 was read
decodeACValue(s1, val0, val1, zig, zigEnd, al) ==
    IF val1 # 0
      THEN IF zig + val0 > zigEnd THEN s1
           ELSE IF s1.in = <<>> THEN failEOF(s1)
           ELSE decodeAC([afterToken(s1) EXCEPT
                             !.b[unzig[zig + val0 + 1]] = tokenOf(s1) * Pow2(al)],
                         zig + val0 + 1, zigEnd, al)
    ELSE IF val0 # 15
      THEN IF val0 = 0 THEN [s1 EXCEPT !.eobRun = 0]
           ELSE IF s1.in = <<>> THEN failEOF([s1 EXCEPT !.eobRun = Pow2(val0)])
           ELSE [afterToken(s1) EXCEPT
                    !.eobRun = BitOr(Pow2(val0), tokenOf(s1) % 65536) - 1]
    ELSE decodeAC(s1, zig + 16, zigEnd, al)

\* "Decode the AC coefficients, as specified in section F.2.2.2.": the loop
\* for ; zig <= zigEnd; zig++
decodeAC(s, zig, zigEnd, al) ==
    IF zig > zigEnd THEN s
    ELSE IF s.in = <<>> THEN failEOF(s)
    ELSE Only({ decodeACValue(afterToken(s), value \div 16, value % 16, zig, zigEnd, al) :
                  value \in {tokenOf(s)} })

\* a block of a first pass in which a pending end-of-block run is not
\* decremented
decodeFirst_NoDecrement(s, compIndex, zigStart, zigEnd, al) ==
    Only({ IF s1.err # "nil" THEN s1
           ELSE IF (IF zigStart = 0 THEN 1 ELSE zigStart) <= zigEnd /\ s1.eobRun > 0
             THEN s1
           ELSE decodeAC(s1, IF zigStart = 0 THEN 1 ELSE zigStart, zigEnd, al) :
             s1 \in {IF zigStart = 0 THEN decodeDC(s, compIndex, al) ELSE s} })

\* the branch "else" of "if ah != 0" of processSOS: a block of a first pass
decodeFirst(s, compIndex, zigStart, zigEnd, al) ==
    Only({ IF s1.err # "nil" THEN s1
           ELSE IF (IF zigStart = 0 THEN 1 ELSE zigStart) <= zigEnd /\ s1.eobRun > 0
             THEN [s1 EXCEPT !.eobRun = @ - 1]
           ELSE decodeAC(s1, IF zigStart = 0 THEN 1 ELSE zigStart, zigEnd, al) :
             s1 \in {IF zigStart = 0 THEN decodeDC(s, compIndex, al) ELSE s} })

\* b[u] |= delta, delta a power of two
orDelta(x, delta) == IF x % (2 * delta) >= delta THEN x ELSE x + delta

\* refineNonZeroes adding delta to a negative coefficient too
RECURSIVE refineNonZeroes_AlwaysAdds(_, _, _, _, _)
refineNonZeroes_AlwaysAdds(s, zig, zigEnd, nz, delta) ==
    IF zig > zigEnd THEN [s |-> s, zig |-> zig]
    ELSE IF s.b[unzig[zig + 1]] = 0
      THEN IF nz = 0 THEN [s |-> s, zig |-> zig]
           ELSE refineNonZeroes_AlwaysAdds(s, zig + 1, zigEnd, nz - 1, delta)
    ELSE IF s.in = <<>> THEN [s |-> failEOF(s), zig |-> 0]
    ELSE IF tokenOf(s) % 2 = 0
      THEN refineNonZeroes_AlwaysAdds(afterToken(s), zig + 1, zigEnd, nz, delta)
    ELSE refineNonZeroes_AlwaysAdds([afterToken(s) EXCEPT !.b[unzig[zig + 1]] = @ + delta],
                                    zig + 1, zigEnd, nz, delta)

\* refineNonZeroes refines non-zero entries of b in zig-zag order. If nz >= 0,
\* the first nz zero entries are skipped over.  The result is [s, zig].
RECURSIVE refineNonZeroes(_, _, _, _, _)
refineNonZeroes(s, zig, zigEnd, nz, delta) ==
    IF zig > zigEnd THEN [s |-> s, zig |-> zig]
    ELSE IF s.b[unzig[zig + 1]] = 0
      THEN IF nz = 0 THEN [s |-> s, zig |-> zig]
           ELSE refineNonZeroes(s, zig + 1, zigEnd, nz - 1, delta)
    ELSE IF s.in = <<>> THEN [s |-> failEOF(s), zig |-> 0]
    ELSE IF tokenOf(s) % 2 = 0 THEN refineNonZeroes(afterToken(s), zig + 1, zigEnd, nz, delta)
    ELSE refineNonZeroes([afterToken(s) EXCEPT
                             !.b[unzig[zig + 1]] = IF @ >= 0 THEN @ + delta ELSE @ - delta],
                         zig + 1, zigEnd, nz, delta)

RECURSIVE refineLoop(_, _, _, _)

\* one iteration of the loop of refine after its switch: z is the new
\* coefficient, or 0
refineValue(s2, z, val0, zig, zigEnd, delta) ==
    Only({ IF r.s.err # "nil" THEN r
           ELSE IF r.zig > zigEnd THEN [r EXCEPT !.s.err = "too many coefficients"]
           ELSE refineLoop(IF z # 0 THEN [r.s EXCEPT !.b[unzig[r.zig + 1]] = z] ELSE r.s,
                           r.zig + 1, zigEnd, delta) :
             r \in {refineNonZeroes(s2, zig, zigEnd, val0, delta)} })

\* the switch on val1 in the loop of refine: s1 is the state after the value
\* val0<<4 | val1 was read
refineSwitch(s1, val0, val1, zig, zigEnd, delta) ==
    IF val1 = 0
      THEN IF val0 # 15
             THEN IF val0 = 0 THEN [s |-> [s1 EXCEPT !.eobRun = 1], zig |-> zig]
                  ELSE IF s1.in = <<>>
                    THEN [s |-> failEOF([s1 EXCEPT !.eobRun = Pow2(val0)]), zig |-> zig]
                  ELSE [s |-> [afterToken(s1) EXCEPT
                                  !.eobRun = BitOr(Pow2(val0), tokenOf(s1) % 65536)],
                        zig |-> zig]
             ELSE refineValue(s1, 0, val0, zig, zigEnd, delta)
    ELSE IF val1 = 1
      THEN IF s1.in = <<>> THEN [s |-> failEOF(s1), zig |-> zig]
           ELSE refineValue(afterToken(s1), IF tokenOf(s1) % 2 = 1 THEN delta ELSE -delta,
                            val0, zig, zigEnd, delta)
    ELSE [s |-> [s1 EXCEPT !.err = "unexpected Huffman code"], zig |-> zig]

\* the loop "for ; zig <= zigEnd; zig++" of refine; the result is [s, zig]
refineLoop(s, zig, zigEnd, delta) ==
    IF zig > zigEnd THEN [s |-> s, zig |-> zig]
    ELSE IF s.in = <<>> THEN [s |-> failEOF(s), zig |-> zig]
    ELSE Only({ refineSwitch(afterToken(s), value \div 16, value % 16, zig, zigEnd, delta) :
                  value \in {tokenOf(s)} })

\* refine decodes a successive approximation refinement block, as specified
\* in section G.1.2.
refine(s, zigStart, zigEnd, delta) ==
    IF zigStart = 0
      THEN IF s.in = <<>> THEN failEOF(s)
           ELSE IF tokenOf(s) % 2 = 1
             THEN [afterToken(s) EXCEPT !.b[0] = orDelta(@, delta)]
           ELSE afterToken(s)
    ELSE Only({ IF r.s.err # "nil" THEN r.s
                ELSE IF r.s.eobRun > 0
                  THEN refineNonZeroes([r.s EXCEPT !.eobRun = @ - 1],
                                       r.zig, zigEnd, -1, delta).s
                ELSE r.s :
                  r \in {IF s.eobRun = 0 THEN refineLoop(s, zigStart, zigEnd, delta)
                                         ELSE [s |-> s, zig |-> zigStart]} })

\* the body of the loop over j of processSOS from "if ah != 0" to the end of
\* the decoding of the block
decodeBlock(s, compIndex, zigStart, zigEnd, ah, al) ==
    IF ah # 0 THEN refine(s, zigStart, zigEnd, Pow2(al))
    ELSE decodeFirst(s, compIndex, zigStart, zigEnd, al)

(***************************************************************************)
(* The decoder: restart markers.  input is what the reader holds after the *)
(* entropy-coded data of the restart interval; a state r of the search is  *)
(* [tmp, used, err], used being the number of bytes of input read so far.  *)
(***************************************************************************)
rst0Marker == 208
rst7Marker == 215

\* d.readFull(d.tmp[i:2]) in the state r
readTmp(r, input, i) ==
    IF r.used + (2 - i) > Len(input)
      THEN [r EXCEPT !.err = errUnexpectedEOF, !.used = Len(input)]
      ELSE [tmp |-> IF i = 0 THEN <<input[r.used + 1], input[r.used + 2]>>
                             ELSE <<r.tmp[1], input[r.used + 1]>>,
            used |-> r.used + (2 - i),
            err |-> "nil"]

\* findRST that takes any marker for the expected one
RECURSIVE findRST_AnyMarker(_, _, _)
findRST_AnyMarker(r, input, expectedRST) ==
    IF r.err # "nil" THEN r
    ELSE IF r.tmp[1] = 255
      THEN IF r.tmp[2] = expectedRST THEN r
           ELSE IF r.tmp[2] = 255 THEN findRST_AnyMarker(readTmp(r, input, 1), input, expectedRST)
           ELSE IF r.tmp[2] # 0 THEN r
           ELSE findRST_AnyMarker(readTmp(r, input, 0), input, expectedRST)
    ELSE IF r.tmp[2] = 255
      THEN findRST_AnyMarker(readTmp([r EXCEPT !.tmp[1] = 255], input, 1), input, expectedRST)
    ELSE findRST_AnyMarker(readTmp(r, input, 0), input, expectedRST)

\* findRST advances past the next RST restart marker that matches
\* expectedRST.
RECURSIVE findRST(_, _, _)
findRST(r, input, expectedRST) ==
    IF r.err # "nil" THEN r
    ELSE IF r.tmp[1] = 255
      THEN IF r.tmp[2] = expectedRST THEN r
           ELSE IF r.tmp[2] = 255 THEN findRST(readTmp(r, input, 1), input, expectedRST)
           ELSE IF r.tmp[2] # 0 THEN [r EXCEPT !.err = "bad RST marker"]
           ELSE findRST(readTmp(r, input, 0), input, expectedRST)
    ELSE IF r.tmp[2] = 255
      THEN findRST(readTmp([r EXCEPT !.tmp[1] = 255], input, 1), input, expectedRST)
    ELSE findRST(readTmp(r, input, 0), input, expectedRST)

\* processSOS at a restart boundary, from d.readFull(d.tmp[:2]) to the
\* return of findRST
readRST(input, expectedRST) ==
    Only({ IF r.err # "nil" THEN r
           ELSE IF r.tmp[1] # 255 \/ r.tmp[2] # expectedRST
             THEN findRST(r, input, expectedRST)
           ELSE r :
             r \in {readTmp([tmp |-> <<0, 0>>, used |-> 0, err |-> "nil"], input, 0)} })

\* bits{}: the empty bit register
noBits == [a |-> 0, m |-> 0, n |-> 0]

\* the bit register after the entropy decoder has read from the input
someBits == [a |-> 1, m |-> 1, n |-> 1]

\* the restart boundary without "d.eobRun = 0"
afterRST_KeepsEobRun(st) ==
    [dec |-> [st.dec EXCEPT !.bits = noBits],
     loc |-> [st.loc EXCEPT
                 !.expectedRST = IF @ + 1 = rst7Marker + 1 THEN rst0Marker ELSE @ + 1,
                 !.dc = <<0, 0, 0, 0>>]]

\* processSOS at a restart boundary after the marker: expectedRST++ and the
\* three resets; st is [dec, loc]
afterRST(st) ==
    [dec |-> [st.dec EXCEPT !.bits = noBits, !.eobRun = 0],
     loc |-> [st.loc EXCEPT
                 !.expectedRST = IF @ + 1 = rst7Marker + 1 THEN rst0Marker ELSE @ + 1,
                 !.dc = <<0, 0, 0, 0>>]]

\* block{}
zeroBlock == [u \in 0..(blockSize - 1) |-> 0]

\* the allocation without the test "if d.progCoeffs[compIndex] == nil"
allocProgCoeffs_Always(progCoeffs, d, scan, mxx, myy) ==
    [c \in DOMAIN progCoeffs |->
        IF \E i \in 1..Len(scan) : scan[i] = c
          THEN [k \in 1..(mxx * myy * d.comp[c + 1].h * d.comp[c + 1].v) |-> zeroBlock]
          ELSE progCoeffs[c]]

\* if d.progressive { for i := 0; i < nComp; i++ { ... make([]block, ...) } };
\* the nil slice is <<>>
allocProgCoeffs(progCoeffs, d, scan, mxx, myy) ==
    [c \in DOMAIN progCoeffs |->
        IF (\E i \in 1..Len(scan) : scan[i] = c) /\ progCoeffs[c] = <<>>
          THEN [k \in 1..(mxx * myy * d.comp[c + 1].h * d.comp[c + 1].v) |-> zeroBlock]
          ELSE progCoeffs[c]]

(***************************************************************************)
(* SpecDecode: the calls of processSOS for the SOS segments of one image,  *)
(* one step per block and per restart boundary.  What the entropy decoder  *)
(* returns for a block, and the bytes found at a restart boundary, are     *)
(* drawn from small sets.                                                  *)
(***************************************************************************)
MaxDecScans == 2
MaxRestartInterval == 1

\* the decoder after a SOF segment and a DRI segment
frameOf(marker, payload, ri) ==
    [d |-> decoderAfterSOF(marker, payload),
     width |-> sofWidth(payload),
     height |-> sofHeight(payload),
     ri |-> ri]

\* a progressive 4:2:0 image of 9x8 pixels (one MCU, two blocks of Y inside
\* the image), and a progressive and a baseline gray image of 24x8 pixels
\* (three MCUs), as the encoder writes their SOF
DecodeFrames ==
    { frameOf(sof2Marker, SubSeq(sofBuf([X |-> 9, Y |-> 8], 3), 1, 15), 0) }
    \cup { frameOf(marker, SubSeq(sofBuf([X |-> 24, Y |-> 8], 1), 1, 9), ri) :
             marker \in {sof0Marker, sof2Marker}, ri \in 0..MaxRestartInterval }

\* SOS segments after their length: the DC band of all components (al = 1)
\* and its refinement, the DC band of Y, the band 1..5 of Y (al = 1) and its
\* refinement, the band 1..63 of Cb, and the header of a baseline scan of
\* component 1
ScanPayloads ==
    { <<3, 1, 0, 2, 17, 3, 17, 0, 0, 1>>,
      <<3, 1, 0, 2, 17, 3, 17, 0, 0, 16>>,
      <<1, 1, 0, 0, 0, 0>>,
      <<1, 1, 0, 1, 5, 1>>,
      <<1, 1, 0, 1, 5, 16>>,
      <<1, 2, 17, 1, 63, 0>>,
      <<1, 1, 0, 0, 63, 0>> }

\* what the entropy decoder returns while one block is decoded
BlockData ==
    { <<>>,
      <<0>>,
      <<1, 1, 0>>,
      <<32, 1>>,
      <<65, 3, 0>>,
      <<240, 33, 2, 0>> }

\* the bytes at a restart boundary
RestartInputs ==
    { <<255, 208>>,
      <<255, 209>>,
      <<0, 255, 208>>,
      <<255, 255, 208>>,
      <<255, 0, 255, 208>>,
      <<18, 52, 255, 208>>,
      <<52, 255, 209>>,
      <<18, 255, 217>>,
      <<18, 52, 86>> }

noLocals ==
    [scan |-> <<>>, zigStart |-> 0, zigEnd |-> 0, ah |-> 0, al |-> 0, mxx |-> 0, myy |-> 0,
     mcu |-> 0, k |-> 0, blockCount |-> 0, dc |-> <<0, 0, 0, 0>>, expectedRST |-> rst0Marker]

noRST == [input |-> <<>>, used |-> 0, expectedRST |-> 0, bits |-> noBits, eobRun |-> 0,
          dc |-> <<0, 0, 0, 0>>, progCoeffs |-> <<>>]

DecodeInit ==
    /\ dF \in DecodeFrames
    /\ dec = [bits |-> noBits, eobRun |-> 0, progCoeffs |-> [c \in 0..2 |-> <<>>],
              hasImg |-> FALSE, img |-> <<>>]
    /\ loc = noLocals
    /\ gh = [scans |-> 0, eobAtStart |-> 0, before |-> [c \in 0..2 |-> <<>>],
             named |-> {}, visited |-> <<>>, rst |-> noRST]
    /\ dPc = "sos"
    /\ ScriptIdle
    /\ QuantIdle
    /\ EncIdle
    /\ EmitIdle
    /\ HuffIdle
    /\ BlocksIdle
    /\ CallIdle

notDecVars == <<scriptVars, quantVars, encVars, emitVars, huffVars, blockVars, callVars>>

\* the local variables of processSOS when its loops start
localsOf(f, tmp, scan) ==
    [scan |-> scan,
     zigStart |-> IF f.d.progressive THEN tmp[2 + 2 * tmp[1]] ELSE 0,
     zigEnd |-> IF f.d.progressive THEN tmp[3 + 2 * tmp[1]] ELSE blockSize - 1,
     ah |-> IF f.d.progressive THEN tmp[4 + 2 * tmp[1]] \div 16 ELSE 0,
     al |-> IF f.d.progressive THEN tmp[4 + 2 * tmp[1]] % 16 ELSE 0,
     mxx |-> (f.width + 8 * f.d.comp[1].h - 1) \div (8 * f.d.comp[1].h),
     myy |-> (f.height + 8 * f.d.comp[1].v - 1) \div (8 * f.d.comp[1].v),
     mcu |-> 0, k |-> 0, blockCount |-> 0, dc |-> <<0, 0, 0, 0>>,
     expectedRST |-> rst0Marker]

\* processSOS from its start to its loops
DecodeSOS ==
    /\ dPc = "sos"
    /\ gh.scans < MaxDecScans
    /\ \E tmp \in ScanPayloads :
          IF processSOSHeader(dF.d, Len(tmp), tmp) # "nil"
            THEN /\ dPc' = "error"
                 /\ gh' = [gh EXCEPT !.scans = @ + 1]
                 /\ UNCHANGED <<dec, loc>>
            ELSE \E l \in {localsOf(dF, tmp, sosCompIndex(dF.d, Len(tmp), tmp))} :
                   /\ dec' = [dec EXCEPT
                                 !.bits = noBits,
                                 !.hasImg = TRUE,
                                 !.progCoeffs =
                                     IF dF.d.progressive
                                       THEN allocProgCoeffs(@, dF.d, l.scan, l.mxx, l.myy)
                                       ELSE @]
                   /\ loc' = l
                   /\ gh' = [scans |-> gh.scans + 1,
                             eobAtStart |-> dec.eobRun,
                             before |-> dec.progCoeffs,
                             named |-> IF dF.d.progressive
                                         THEN gh.named \cup {l.scan[i] : i \in 1..Len(l.scan)}
                                         ELSE gh.named,
                             visited |-> <<>>,
                             rst |-> noRST]
                   /\ dPc' = "blocks"
    /\ UNCHANGED <<dF, notDecVars>>

\* the local variables after one iteration of the loop over j, and after
\* mcu++ when it was the last of its MCU
afterBlock(l, nSlots) ==
    IF l.k + 1 < nSlots THEN [l EXCEPT !.k = @ + 1]
    ELSE [l EXCEPT !.k = 0, !.mcu = @ + 1]

\* pcAfterBlock without "mcu < mxx*myy": a marker after the last MCU too
pcAfterBlock_AfterLast(l, ri) ==
    IF l.k # 0 THEN "blocks"
    ELSE IF ri > 0 /\ l.mcu % ri = 0 THEN "restart"
    ELSE IF l.mcu < l.mxx * l.myy THEN "blocks"
    ELSE "sos"

\* where processSOS goes on after afterBlock: the next block, the restart
\* boundary (d.ri > 0 && mcu%d.ri == 0 && mcu < mxx*myy), or its return
pcAfterBlock(l, ri) ==
    IF l.k # 0 THEN "blocks"
    ELSE IF ri > 0 /\ l.mcu % ri = 0 /\ l.mcu < l.mxx * l.myy THEN "restart"
    ELSE IF l.mcu < l.mxx * l.myy THEN "blocks"
    ELSE "sos"

\* by*mxx + bx: the index with the row of the MCUs for stride
coeffIndex_MCUStride(f, l, pos) == pos[3] * l.mxx + pos[2] + 1

\* by*mxx*hi + bx, as an index of the sequence of the blocks of a component
coeffIndex(f, l, pos) == pos[3] * l.mxx * f.d.comp[pos[1] + 1].h + pos[2] + 1

\* one iteration of the loop over j of processSOS
DecodeBlock ==
    /\ dPc = "blocks"
    /\ \E slots \in {mcuSlots(dF.d, loc.scan)} :
       \E p \in {decoderBlock([seq |-> <<>>, blockCount |-> loc.blockCount],
                              dF.d, dF.width, dF.height, Len(loc.scan), loc.mxx,
                              loc.mcu % loc.mxx, loc.mcu \div loc.mxx, slots[loc.k + 1])} :
          IF p.seq = <<>>
            THEN \E l \in {afterBlock([loc EXCEPT !.blockCount = p.blockCount], Len(slots))} :
                   /\ loc' = l
                   /\ dPc' = pcAfterBlock(l, dF.ri)
                   /\ gh' = [gh EXCEPT !.rst = noRST]
                   /\ UNCHANGED dec
            ELSE \E data \in BlockData, pos \in {p.seq[1]} :
                 \E r \in {decodeBlock([b |-> IF dF.d.progressive
                                                THEN dec.progCoeffs[pos[1]][coeffIndex(dF, loc, pos)]
                                                ELSE zeroBlock,
                                        eobRun |-> dec.eobRun,
                                        dc |-> loc.dc,
                                        in |-> data,
                                        err |-> "nil"],
                                       pos[1], loc.zigStart, loc.zigEnd, loc.ah, loc.al)} :
                   /\ gh' = [gh EXCEPT !.visited = Append(@, pos), !.rst = noRST]
                   /\ IF r.err # "nil"
                        THEN /\ dec' = [dec EXCEPT
                                           !.bits = IF r.in = data THEN @ ELSE someBits,
                                           !.eobRun = r.eobRun]
                             /\ loc' = [loc EXCEPT !.dc = r.dc, !.blockCount = p.blockCount]
                             /\ dPc' = "error"
                        ELSE \E l \in {afterBlock([loc EXCEPT !.dc = r.dc,
                                                              !.blockCount = p.blockCount],
                                                  Len(slots))} :
                               /\ dec' = [dec EXCEPT
                                             !.bits = IF r.in = data THEN @ ELSE someBits,
                                             !.eobRun = r.eobRun,
                                             !.progCoeffs =
                                                 IF dF.d.progressive
                                                   THEN [@ EXCEPT
                                                           ![pos[1]][coeffIndex(dF, loc, pos)] = r.b]
                                                   ELSE @,
                                             !.img = IF dF.d.progressive THEN @
                                                     ELSE Append(@, pos)]
                               /\ loc' = l
                               /\ dPc' = pcAfterBlock(l, dF.ri)
    /\ UNCHANGED <<dF, notDecVars>>

\* processSOS at a restart boundary
DecodeRestart ==
    /\ dPc = "restart"
    /\ \E input \in RestartInputs :
       \E r \in {readRST(input, loc.expectedRST)} :
          /\ gh' = [gh EXCEPT !.rst = [input |-> input, used |-> r.used,
                                       expectedRST |-> loc.expectedRST,
                                       bits |-> dec.bits, eobRun |-> dec.eobRun,
                                       dc |-> loc.dc, progCoeffs |-> dec.progCoeffs]]
          /\ IF r.err # "nil"
               THEN /\ dPc' = "error"
                    /\ UNCHANGED <<dec, loc>>
               ELSE \E st \in {afterRST([dec |-> dec, loc |-> loc])} :
                      /\ dec' = st.dec
                      /\ loc' = st.loc
                      /\ dPc' = "blocks"
    /\ UNCHANGED <<dF, notDecVars>>

NextDecode ==
    \/ DecodeSOS
    \/ DecodeBlock
    \/ DecodeRestart

SpecDecode == DecodeInit /\ [][NextDecode]_vars

\* processSOS is about to decode the first block of a scan
atFirstBlock == dPc = "blocks" /\ loc.mcu = 0 /\ loc.k = 0 /\ loc.blockCount = 0

\* C17: when processSOS starts to decode the blocks of an SOS segment,
\* d.eobRun is 0, whatever run the scan before left pending.
C17_EobRunZeroAtScanStart ==
    atFirstBlock => dec.eobRun = 0

\* a restart boundary has just been crossed: the marker was found and the
\* first block after it is not decoded yet
afterBoundary == dPc = "blocks" /\ gh.rst.input # <<>>

\* C18: at a restart boundary the bit register, the DC predictors of all
\* components and d.eobRun are reset before the first block after it is
\* decoded, and the coefficient stores are as they were before the boundary.
C18_RestartResets ==
    afterBoundary =>
        /\ dec.bits = noBits
        /\ loc.dc = <<0, 0, 0, 0>>
        /\ dec.eobRun = 0
        /\ dec.progCoeffs = gh.rst.progCoeffs

\* C18 witness: a boundary was crossed in a progressive scan with a run of
\* end-of-block pending, bits in the register, a DC predictor that was not 0
\* and a coefficient in the store
C18_Witness ==
    /\ afterBoundary
    /\ dF.d.progressive
    /\ gh.rst.eobRun > 0
    /\ gh.rst.bits # noBits
    /\ gh.rst.dc[1] # 0
    /\ \E k \in 1..Len(dec.progCoeffs[0]) : dec.progCoeffs[0][k][0] # 0

\* the index after the first pair FF <expectedRST> of input, or 0
afterFirstRST(input, expectedRST) ==
    IF \E j \in 1..(Len(input) - 1) : input[j] = 255 /\ input[j + 1] = expectedRST
      THEN 1 + CHOOSE j \in 1..(Len(input) - 1) :
                 /\ input[j] = 255 /\ input[j + 1] = expectedRST
                 /\ \A i \in 1..(j - 1) : ~(input[i] = 255 /\ input[i + 1] = expectedRST)
      ELSE 0

\* C19: when a restart marker is due and the next two bytes are not FF and
\* the expected RSTn, processSOS returns an error or goes on right after the
\* next pair FF <expected RSTn>; the blocks decoded are, in all cases, the
\* first blocks of the scan in the order of an undisturbed decoding.
C19_ResyncOrError ==
    /\ (gh.rst.input # <<>> /\ SubSeq(gh.rst.input, 1, 2) # <<255, gh.rst.expectedRST>>) =>
           \/ dPc = "error"
           \/ /\ dPc = "blocks"
              /\ gh.rst.used > 0
              /\ gh.rst.used = afterFirstRST(gh.rst.input, gh.rst.expectedRST)
    /\ gh.visited =
           SubSeq(decoderBlocks(dF.d, dF.width, dF.height, loc.scan), 1, Len(gh.visited))

\* C19 witness: the second restart marker of a scan was found after a byte
\* that is no marker, and the third block of the scan is to be decoded
C19_Witness ==
    /\ afterBoundary
    /\ gh.rst.input = <<52, 255, 209>>
    /\ gh.rst.used = 3
    /\ loc.expectedRST = 210
    /\ Len(gh.visited) = 2

\* the scan in progress names component c
namedByScan(c) == \E i \in 1..Len(loc.scan) : loc.scan[i] = c

\* the scan in progress has decoded block k of component c
visitedByScan(c, k) ==
    \E i \in 1..Len(gh.visited) :
        gh.visited[i][1] = c /\ coeffIndex(dF, loc, gh.visited[i]) = k

\* C20: the coefficient store of a component exists from the first scan on
\* that names the component, with the size of that moment; a scan changes
\* coefficients only in the blocks it visits of the components it names and,
\* when ah = 0, only at the zig-zag positions ss..se; all else is as the
\* scans before left it.
C20_CoefficientStoresPersist ==
    dF.d.progressive =>
        \A c \in 0..2 :
            /\ (dec.progCoeffs[c] # <<>>) <=> (c \in gh.named)
            /\ c \in gh.named =>
                   Len(dec.progCoeffs[c]) =
                       loc.mxx * loc.myy * dF.d.comp[c + 1].h * dF.d.comp[c + 1].v
            /\ gh.before[c] # <<>> => Len(dec.progCoeffs[c]) = Len(gh.before[c])
            /\ \A k \in 1..Len(dec.progCoeffs[c]) : \A u \in 0..(blockSize - 1) :
                   dec.progCoeffs[c][k][u] #
                           (IF gh.before[c] = <<>> THEN 0 ELSE gh.before[c][k][u]) =>
                       /\ namedByScan(c)
                       /\ visitedByScan(c, k)
                       /\ loc.ah = 0 =>
                              \E z \in loc.zigStart..loc.zigEnd : unzig[z + 1] = u

\* C20 witness: after a scan of the DC band of all components, a scan of the
\* band 1..5 of Y has ended; the first block of Y holds the DC coefficient
\* of the first scan and a coefficient of the second
C20_Witness ==
    /\ dPc = "sos"
    /\ gh.scans = 2
    /\ Len(dF.d.comp) = 3
    /\ loc.scan = <<0>> /\ loc.zigStart = 1 /\ loc.ah = 0
    /\ dec.progCoeffs[0][1][0] # 0
    /\ dec.progCoeffs[0][1][1] # 0
    /\ dec.progCoeffs[1] # <<>>

(***************************************************************************)
(* The specifications of one function: the arguments are drawn in the      *)
(* initial state and the steps apply the function to them.                 *)
(***************************************************************************)
notCallVars == <<scriptVars, quantVars, encVars, emitVars, huffVars, blockVars, decVars>>

NotCallIdle ==
    /\ ScriptIdle
    /\ QuantIdle
    /\ EncIdle
    /\ EmitIdle
    /\ HuffIdle
    /\ BlocksIdle
    /\ DecodeIdle

\* an encoder that has emitted nothing
freshEncoder == [bits |-> <<0, 0>>, nBits |-> 0, quant |-> <<>>, calls |-> <<>>]

\* the bits an encoder has emitted: the bytes written, without the stuffed
\* 0x00, and the bits pending
emittedBits(e) == bitsOfBytes(destuff(bytesOfCalls(e.calls))) \o pendingBits(e)

(***************************************************************************)
(* SpecRLE: emitHuffRLE applied to one run length and one value.           *)
(***************************************************************************)
MaxSmallValue == 40

\* the values: the small ones, and those around the powers of two
RLEValues ==
    (-MaxSmallValue..MaxSmallValue)
        \cup { Pow2(k) - 1 : k \in 6..16 } \cup { Pow2(k) : k \in 6..15 }
        \cup { 1 - Pow2(k) : k \in 6..16 } \cup { -Pow2(k) : k \in 6..15 }

\* the calls of emitHuffRLE the encoder makes: a DC table with run length 0
\* and any value, an AC table with a run length of 0..15 and a value that is
\* not 0
RLECalls ==
    { [h |-> h, runLength |-> 0, value |-> v] :
        h \in {huffIndexLuminanceDC, huffIndexChrominanceDC}, v \in RLEValues }
    \cup { [h |-> h, runLength |-> r, value |-> v] :
             h \in {huffIndexLuminanceAC, huffIndexChrominanceAC},
             r \in {0, 1, 15}, v \in RLEValues \ {0} }

RLEInit ==
    /\ pIn \in RLECalls
    /\ pOut = [e |-> freshEncoder, panic |-> FALSE, decoded |-> 0]
    /\ pPc = "start"
    /\ NotCallIdle

\* the number of bits emitHuffRLE computes for value
nBitsOf(value) ==
    Only({ IF a < 256 THEN bitCount[a + 1] ELSE 8 + bitCount[Shr(a, 8) + 1] :
             a \in {IF value < 0 THEN -value ELSE value} })

\* e.emitHuffRLE(h, runLength, value); the index of theHuffmanLUT[h] out of
\* range is a panic
RLEEmit ==
    /\ pPc = "start"
    /\ IF BitOr(pIn.runLength * 16, nBitsOf(pIn.value)) \in DOMAIN theHuffmanLUT[pIn.h]
         THEN pOut' = [pOut EXCEPT
                          !.e = emitHuffRLE(freshEncoder, pIn.h, pIn.runLength, pIn.value)]
         ELSE pOut' = [pOut EXCEPT !.panic = TRUE]
    /\ pPc' = "emitted"
    /\ UNCHANGED <<pIn, notCallVars>>

\* receiveExtend(t) applied to the t bits x: the extension of section F.2.2.1
extend(x, t) == IF t > 0 /\ x < Pow2(t - 1) THEN x - Pow2(t) + 1 ELSE x

\* the decoder reads the t bits that follow the code, t the low four bits of
\* the symbol
RLEDecode ==
    /\ pPc = "emitted"
    /\ ~pOut.panic
    /\ \E w \in {emittedBits(pOut.e)}, t \in {nBitsOf(pIn.value)} :
          /\ Len(w) >= t
          /\ pOut' = [pOut EXCEPT
                         !.decoded = extend(prefixOf(SubSeq(w, Len(w) - t + 1, Len(w)), t), t)]
    /\ pPc' = "decoded"
    /\ UNCHANGED <<pIn, notCallVars>>

NextRLE ==
    \/ RLEEmit
    \/ RLEDecode

SpecRLE == RLEInit /\ [][NextRLE]_vars

\* the bit length of a >= 0
RECURSIVE bitLength(_)
bitLength(a) == IF a = 0 THEN 0 ELSE 1 + bitLength(a \div 2)

\* what the claim says emitHuffRLE emits for the call c, when the symbol has
\* a code
rleExpected(c) ==
    LET n == bitLength(IF c.value < 0 THEN -c.value ELSE c.value)
        code == codeOf(c.h, c.runLength * 16 + n)
    IN  bitsOf(code.code, code.len)
          \o bitsOf((IF c.value < 0 THEN c.value - 1 ELSE c.value) % Pow2(n), n)

\* the symbol runLength<<4 | c of the call has a code in its table
rleListed(c) ==
    (c.runLength * 16 + bitLength(IF c.value < 0 THEN -c.value ELSE c.value))
        \in listedValues(c.h)

\* C29, as claimed: for every value below 2^16 in magnitude emitHuffRLE
\* emits the Huffman code of runLength<<4 | c, c the bit length of the
\* magnitude, then the c bits of the value (of the value minus 1 when it is
\* negative), and the extension of those bits is the value.
C29_EveryValueHasCode ==
    pPc # "start" =>
        /\ ~pOut.panic
        /\ rleListed(pIn)
        /\ emittedBits(pOut.e) = rleExpected(pIn)
        /\ pPc = "decoded" => pOut.decoded = pIn.value

\* C29, amended: the same for the values whose symbol runLength<<4 | c is
\* listed in the table.
C29_ListedSymbols ==
    (pPc # "start" /\ rleListed(pIn)) =>
        /\ ~pOut.panic
        /\ emittedBits(pOut.e) = rleExpected(pIn)
        /\ pPc = "decoded" => pOut.decoded = pIn.value

\* C29 witness: -1023 after a run of 15 zeros was emitted with the
\* chrominance AC table and decoded
C29_Witness ==
    /\ pPc = "decoded"
    /\ pIn = [h |-> huffIndexChrominanceAC, runLength |-> 15, value |-> -1023]
    /\ pOut.decoded = -1023
    /\ Len(emittedBits(pOut.e)) = 26

(***************************************************************************)
(* SpecBand: writePartialBlock and writeBlock applied to one block, and    *)
(* the first pass of the decoder applied to what they emitted.             *)
(***************************************************************************)
MaxNonZero == 2

\* the zig-zag positions where the blocks have a coefficient
BandPositions == {0, 1, 5, 22, 40, 63}

\* the values of the coefficients, before quantization
BandValues == {-8184, 8, 60}

\* the blocks, in natural order: at most MaxNonZero coefficients
BandBlocks ==
    UNION { { [u \in 0..(blockSize - 1) |->
                 IF \E z \in S : unzig[z + 1] = u
                   THEN f[CHOOSE z \in S : unzig[z + 1] = u] ELSE 0] :
               f \in [S -> BandValues] } :
            S \in { T \in SUBSET BandPositions : Cardinality(T) <= MaxNonZero } }

\* the ranges <<ss, se>> of the scans
Bands == { <<1, 5>>, <<6, 63>>, <<1, 63>>, <<2, 2>>, <<3, 40>>, <<0, 0>> }

\* the quantization tables of quality 100 (all ones) and of quality 90
BandQualities == {100, 90}

\* e.quant after initQuant, for each of the qualities
bandQuant == [quality \in BandQualities |-> initQuant(quality)]

BandInit ==
    /\ pIn \in { [b |-> b, q |-> q, prevDC |-> prevDC, partial |-> partial,
                  ss |-> band[1], se |-> band[2], quality |-> quality] :
                   b \in BandBlocks, q \in 0..(nQuantIndex - 1), prevDC \in {0, 3},
                   partial \in BOOLEAN, band \in Bands, quality \in BandQualities }
    /\ pIn.partial \/ (pIn.ss = 0 /\ pIn.se = 0 /\ pIn.quality = 100)
    /\ pIn.prevDC = 0 \/ pIn.ss = 0
    /\ pOut = [e |-> freshEncoder, dc |-> 0, s |-> 0]
    /\ pPc = "start"
    /\ NotCallIdle

\* processor(&b, q, prevDC) of a baseline scan (writeBlock) or of a
\* progressive scan (writePartialBlock with ss, se), fdct being done
BandWrite ==
    /\ pPc = "start"
    /\ \E r \in {processor([partial |-> pIn.partial, ss |-> pIn.ss, se |-> pIn.se],
                           [freshEncoder EXCEPT !.quant = bandQuant[pIn.quality]],
                           pIn.b, pIn.q, pIn.prevDC)} :
          pOut' = [pOut EXCEPT !.e = r.e, !.dc = r.dc]
    /\ pPc' = "written"
    /\ UNCHANGED <<pIn, notCallVars>>

\* the codes of table h: <<size, codeword>> to the value
codeTable ==
    [h \in 0..(nHuffIndex - 1) |->
        { <<codeOf(h, v).len, codeOf(h, v).code, v>> : v \in listedValues(h) }]

\* decodeHuffman on the bits w: [value, n], the value of the first code of
\* table h in w and its size, n = 0 when there is none
decodeHuffman(h, w) ==
    Only({ Only({ IF hit = {} THEN [value |-> 0, n |-> 0]
                  ELSE Only({ [value |-> t[3], n |-> t[1]] : t \in hit }) :
                    hit \in {{ t \in codeTable[h] : t[1] <= Len(w) /\ t[2] = pre[t[1]] }} }) :
             pre \in {[n \in 1..Min2(16, Len(w)) |-> prefixOf(w, n)]} })

\* what the entropy decoder returns for the bits w, in order: each value of
\* decodeHuffman(h) (hDC for the first when dcFirst) and, when its low four
\* bits t are not 0, the value of receiveExtend(t)
RECURSIVE entropyValues(_, _, _, _)
entropyValues(hDC, hAC, dcFirst, w) ==
    IF w = <<>> THEN <<>>
    ELSE Only({ IF r.n = 0 \/ r.n + (r.value % 16) > Len(w) THEN << -1 >>
                ELSE (IF r.value % 16 = 0 THEN <<r.value>>
                      ELSE <<r.value,
                             extend(prefixOf(SubSeq(w, r.n + 1, Len(w)), r.value % 16),
                                    r.value % 16)>>)
                     \o entropyValues(hDC, hAC, FALSE,
                                      SubSeq(w, r.n + (r.value % 16) + 1, Len(w))) :
                  r \in {decodeHuffman(IF dcFirst THEN hDC ELSE hAC, w)} })

\* the block of the decoder before the scan: zero
bandDecoderState ==
    [b |-> zeroBlock, eobRun |-> 0, dc |-> <<pIn.prevDC, 0, 0, 0>>,
     in |-> entropyValues(2 * pIn.q, 2 * pIn.q + 1, pIn.ss = 0, emittedBits(pOut.e)),
     err |-> "nil"]

\* the first pass of the decoder (ah = 0, al = 0) on the emitted bits, for
\* the range of the scan (0..63 for the baseline scan)
BandDecode ==
    /\ pPc = "written"
    /\ pOut' = [pOut EXCEPT
                   !.s = decodeFirst(bandDecoderState, 0, pIn.ss,
                                     IF pIn.partial THEN pIn.se ELSE blockSize - 1, 0)]
    /\ pPc' = "decoded"
    /\ UNCHANGED <<pIn, notCallVars>>

NextBand ==
    \/ BandWrite
    \/ BandDecode

SpecBand == BandInit /\ [][NextBand]_vars

\* the quantized coefficient at the zig-zag position zig of the block
bandCoefficient(zig) ==
    div(pIn.b[unzig[zig + 1]], 8 * bandQuant[pIn.quality][pIn.q + 1][zig + 1])

\* the codes the claim gives the positions ss..se: the ZRL codes and the
\* symbol with its bits for each non-zero coefficient that z zero
\* coefficients of the range precede, the code 0x00 when the last
\* coefficient is zero
bandExpected(h, ss, se) ==
    LET Body(acc, zig) ==
            IF bandCoefficient(zig) = 0 THEN [acc EXCEPT !.z = @ + 1]
            ELSE [w |-> acc.w
                          \o Flatten([i \in 1..(acc.z \div 16) |->
                                         bitsOf(codeOf(h, 240).code, codeOf(h, 240).len)])
                          \o rleExpected([h |-> h, runLength |-> acc.z % 16,
                                          value |-> bandCoefficient(zig)]),
                  z |-> 0]
    IN  ForRange(Body, [w |-> <<>>, z |-> 0], ss, se).w
          \o (IF bandCoefficient(se) = 0 THEN bitsOf(codeOf(h, 0).code, codeOf(h, 0).len)
              ELSE <<>>)

\* C27: in an AC scan of the range ss..se, ss > 0, writePartialBlock emits
\* for the coefficients ss..se, and for no other, floor(z/16) codes 0xF0
\* and one symbol of run z mod 16 for each non-zero coefficient that z zero
\* coefficients precede, and one code 0x00 exactly when the coefficient at
\* se is zero.
C27_RangeCoded ==
    (pPc # "start" /\ pIn.partial /\ pIn.ss > 0) =>
        emittedBits(pOut.e) = bandExpected(2 * pIn.q + 1, pIn.ss, pIn.se)

\* C27 witness: the range 3..40 of a block with coefficients at 22 and 40:
\* a run of 19 zeros, then a run of 17, no code 0x00
C27_Witness ==
    /\ pPc = "written"
    /\ pIn.partial /\ pIn.ss = 3 /\ pIn.se = 40
    /\ pIn.quality = 100 /\ pIn.q = 0
    /\ bandCoefficient(22) = 1 /\ bandCoefficient(40) = -1023
    /\ \A z \in 3..40 : z \notin {22, 40} => bandCoefficient(z) = 0
    /\ Len(emittedBits(pOut.e)) > 2 * codeOf(huffIndexLuminanceAC, 240).len + 11

\* C28: the first pass of the decoder on what writePartialBlock emitted for
\* the range ss..se, ss >= 1, restores the quantized coefficients of the
\* range, reads all of it and leaves eobRun at 0; so does what writeBlock
\* emitted for 0..63.
C28_RoundTrip ==
    (pPc = "decoded" /\ (pIn.ss > 0 \/ ~pIn.partial)) =>
        /\ pOut.s.err = "nil"
        /\ pOut.s.in = <<>>
        /\ pOut.s.eobRun = 0
        /\ \A zig \in (IF pIn.partial THEN pIn.ss ELSE 0)..(IF pIn.partial THEN pIn.se ELSE blockSize - 1) :
              pOut.s.b[unzig[zig + 1]] = bandCoefficient(zig)

\* C28 witness: a baseline block with a predictor of 3, a DC of 1 and an AC
\* coefficient at 40 after 39 zeros, back from the decoder
C28_Witness ==
    /\ pPc = "decoded"
    /\ ~pIn.partial /\ pIn.prevDC = 3
    /\ bandCoefficient(0) = 1 /\ bandCoefficient(40) = 8
    /\ pOut.s.b[0] = 1 /\ pOut.s.b[unzig[41]] = 8
    /\ pOut.s.in = <<>>
    /\ Len(emittedBits(pOut.e)) > 30

(***************************************************************************)
(* SpecDC: the blocks of one scan that codes the DC coefficients, a        *)
(* baseline scan or a progressive scan of the range 0..0, one block at a   *)
(* time: the encoder's call of the processor, then the decoder's first     *)
(* pass on the bits of the block.                                          *)
(***************************************************************************)
MaxDCSide == 17

\* the images of the scans
DCImages ==
    { [gray |-> gray, Dx |-> dx, Dy |-> dy, dct |-> dct] :
        gray \in BOOLEAN, dx \in {8, 16, MaxDCSide}, dy \in {8, MaxDCSide}, dct \in {1, 2} }

\* the scans: writeSOS (component -1, writeBlock) and writeProgressiveSOS
\* with the range 0..0 for all the components or for one
DCScans ==
    { [img |-> img, component |-> component, partial |-> partial] :
        img \in DCImages, component \in -1..2, partial \in BOOLEAN }

DCInit ==
    /\ pIn \in DCScans
    /\ pIn.partial \/ pIn.component = -1
    /\ pIn.img.gray => pIn.component \in {-1, 0}
    /\ pOut = [k |-> 0,
               st |-> [e |-> [freshEncoder EXCEPT !.quant = bandQuant[90]],
                       prevDC |-> <<0, 0, 0>>],
               dc |-> <<0, 0, 0, 0>>, delta |-> <<>>, decoded |-> <<>>, err |-> "nil"]
    /\ pPc = "scan"
    /\ NotCallIdle

\* the blockProcessor of the scan
dcProcessor == [partial |-> pIn.partial, ss |-> 0, se |-> IF pIn.partial THEN 0 ELSE blockSize - 1]

\* the decoder's block: the values the entropy decoder returns for the bits
\* w, with the tables the scan header gives the component c (0 for Y, 1 for
\* Cb and Cr), and the array dc so far
dcDecoderState(w, c, dc) ==
    [b |-> zeroBlock, eobRun |-> 0, dc |-> dc,
     in |-> entropyValues(IF c = 0 THEN 0 ELSE 2, IF c = 0 THEN 1 ELSE 3, TRUE, w),
     err |-> "nil"]

\* one block: the encoder's call of the processor, and the decoder's first
\* pass (ah = 0, al = 0) on the bits that call emitted
DCBlock ==
    /\ pPc = "scan"
    /\ pOut.err = "nil"
    /\ \E bl \in {scanBlocks(pIn.img, pIn.component)} :
          /\ pOut.k < Len(bl)
          /\ \E blk \in {bl[pOut.k + 1]} :
             \E st2 \in {blockStep(pOut.st, pIn.img, blk, dcProcessor)} :
             \E w \in {SubSeq(emittedBits(st2.e), Len(emittedBits(pOut.st.e)) + 1,
                              Len(emittedBits(st2.e)))} :
             \E s0 \in {dcDecoderState(w, blk[1], pOut.dc)} :
             \E s2 \in {decodeFirst(s0, blk[1], 0, dcProcessor.se, 0)} :
                pOut' = [k |-> pOut.k + 1,
                         st |-> st2,
                         dc |-> s2.dc,
                         delta |-> Append(pOut.delta,
                                          IF s0.in # <<>> /\ s0.in[1] = 0 THEN 0
                                          ELSE IF Len(s0.in) >= 2 THEN s0.in[2] ELSE -1),
                         decoded |-> Append(pOut.decoded, s2.b[0]),
                         err |-> IF s2.in # <<>> THEN "bits left" ELSE s2.err]
    /\ pPc' = "scan"
    /\ UNCHANGED <<pIn, notCallVars>>

\* the end of the scan
DCEnd ==
    /\ pPc = "scan"
    /\ pOut.k = Len(scanBlocks(pIn.img, pIn.component))
    /\ pPc' = "done"
    /\ UNCHANGED <<pIn, pOut, notCallVars>>

NextDC ==
    \/ DCBlock
    \/ DCEnd

SpecDC == DCInit /\ [][NextDC]_vars

\* the quantized DC coefficient of the block blk, <<component, bx, by>>
quantizedDC(img, blk) ==
    div(blockOf(img, blk[1], blk[2], blk[3])[0],
        8 * bandQuant[90][(IF blk[1] = 0 THEN 0 ELSE 1) + 1][1])

\* the quantized DC coefficient of the block of the same component before
\* the block j of the scan, 0 when there is none
previousDC(img, bl, j) ==
    LET before == { i \in 1..(j - 1) : bl[i][1] = bl[j][1] }
    IN  IF before = {} THEN 0
        ELSE quantizedDC(img, bl[CHOOSE i \in before : \A i2 \in before : i2 <= i])

\* C26: in every scan that codes the DC coefficients each block is coded as
\* its quantized DC minus the quantized DC of the block of the same
\* component before it in the scan, 0 for the first, and the decoder, whose
\* predictors start at 0 as well, recovers the quantized DC of every block.
C26_PredictorsRoundTrip ==
    pPc \in {"scan", "done"} =>
        \A bl \in {scanBlocks(pIn.img, pIn.component)} :
            /\ pOut.err = "nil"
            /\ \A j \in 1..pOut.k :
                  /\ pOut.delta[j] = quantizedDC(pIn.img, bl[j]) - previousDC(pIn.img, bl, j)
                  /\ pOut.decoded[j] = quantizedDC(pIn.img, bl[j])

\* C26 witness: the end of a progressive DC scan of the three components of
\* a 17x17 colour image: four regions of six blocks, the last Cr block
\* coded against the Cr block of the region before
C26_Witness ==
    /\ pPc = "done"
    /\ ~pIn.img.gray /\ pIn.img.Dx = 17 /\ pIn.img.Dy = 17 /\ pIn.img.dct = 1
    /\ pIn.partial /\ pIn.component = -1
    /\ pOut.k = 24
    /\ pOut.delta[24] # 0
    /\ pOut.decoded[24] = quantizedDC(pIn.img, <<2, 1, 1>>)

(***************************************************************************)
(* SpecSingle: the blocks processSOS decodes in a scan of one component,   *)
(* for the sampling factors of the six subsampling ratios makeImg knows.   *)
(* processSOF is not in the repository's files: the frames are those where *)
(* the factors of Y are 1, 2 or 4 across and 1 or 2 down, those of Cb      *)
(* divide them, and Cr has the factors of Cb.                              *)
(***************************************************************************)
MaxBlockColumns == 4

\* the widths and heights: up to MaxBlockColumns blocks, and one pixel more
SingleSides == {1} \cup { 8 * k : k \in 1..MaxBlockColumns } \cup { 8 * k + 1 : k \in 1..MaxBlockColumns }

\* d.comp for the frames: one component 1x1, or Y, Cb and Cr
SingleComps ==
    { << [c |-> 1, h |-> 1, v |-> 1] >> }
    \cup { << [c |-> 1, h |-> h0, v |-> v0], [c |-> 2, h |-> h1, v |-> v1],
              [c |-> 3, h |-> h1, v |-> v1] >> :
             h0 \in {1, 2, 4}, v0 \in {1, 2}, h1 \in {1, 2, 4}, v1 \in {1, 2} }

SingleInit ==
    /\ pIn \in { [comp |-> comp, width |-> width, height |-> height, compIndex |-> i] :
                   comp \in SingleComps, width \in SingleSides,
                   height \in {1, 8, 9, 16, 17}, i \in 0..2 }
    /\ pIn.compIndex < Len(pIn.comp)
    /\ Len(pIn.comp) = 3 => /\ pIn.comp[1].h % pIn.comp[2].h = 0
                            /\ pIn.comp[1].v % pIn.comp[2].v = 0
    /\ pOut = <<>>
    /\ pPc = "header"
    /\ NotCallIdle

\* the loops of processSOS for a scan of the component pIn.compIndex alone
SingleScan ==
    /\ pPc = "header"
    /\ pOut' = decoderBlocks([nComp |-> Len(pIn.comp), comp |-> pIn.comp,
                              progressive |-> TRUE, baseline |-> FALSE],
                             pIn.width, pIn.height, <<pIn.compIndex>>)
    /\ pPc' = "scanned"
    /\ UNCHANGED <<pIn, notCallVars>>

NextSingle == SingleScan

SpecSingle == SingleInit /\ [][NextSingle]_vars

\* ceil(a / b)
ceilDiv(a, b) == (a + b - 1) \div b

\* the blocks of the component inside the pixel bounds, in row-major order:
\* ceil(ceil(width*h_i/h_max)/8) a row, ceil(ceil(height*v_i/v_max)/8) rows
blocksInBounds(comp, width, height, i) ==
    LET perRow == ceilDiv(ceilDiv(width * comp[i + 1].h, comp[1].h), 8)
        rows == ceilDiv(ceilDiv(height * comp[i + 1].v, comp[1].v), 8)
    IN  [k \in 1..(perRow * rows) |-> <<i, (k - 1) % perRow, (k - 1) \div perRow>>]

\* C25: in a scan of one component the decoder decodes the blocks of the
\* component that are inside the pixel bounds, ceil(ceil(width*h_i/h_max)/8)
\* a row and ceil(ceil(height*v_i/v_max)/8) rows, in row-major order, each
\* once, and no other block.
C25_BlocksInPixelBounds ==
    pPc = "scanned" =>
        pOut = blocksInBounds(pIn.comp, pIn.width, pIn.height, pIn.compIndex)

(***************************************************************************)
(* SpecRecon: reconstructProgressiveImage after the scans of a progressive *)
(* image, one step for each component skipped or entered and one for each  *)
(* call of reconstructBlock.  The scans named the components of pIn.named  *)
(* and left the coefficients of pIn.kind in their blocks.  idct and the    *)
(* image types are outside the repository's files: a call of               *)
(* reconstructBlock leaves the dequantized coefficients in the block, and  *)
(* the planes of the image are their strides and lengths.                  *)
(***************************************************************************)
MaxReconSide == 17

\* d.comp of the frames: one component; 4:4:4, 4:2:2, 4:2:0, 4:1:1; Y 4x1
\* with Cb and Cr 2x1
ReconComps ==
    { << [c |-> 1, h |-> 1, v |-> 1] >> }
    \cup { << [c |-> 1, h |-> hv[1], v |-> hv[2]], [c |-> 2, h |-> hv[3], v |-> hv[4]],
              [c |-> 3, h |-> hv[3], v |-> hv[4]] >> :
             hv \in { <<1, 1, 1, 1>>, <<2, 1, 1, 1>>, <<2, 2, 1, 1>>, <<4, 1, 1, 1>>,
                      <<4, 1, 2, 1>> } }

\* the number of MCUs across and down
reconMxx(in) == (in.width + 8 * in.comp[1].h - 1) \div (8 * in.comp[1].h)
reconMyy(in) == (in.height + 8 * in.comp[1].v - 1) \div (8 * in.comp[1].v)

\* the coefficients the scans left in the block k of the store of component
\* c: none, the DC coefficient, or the DC coefficient and two AC coefficients
storedBlock(kind, c, k) ==
    [u \in 0..(blockSize - 1) |->
        IF kind = "zero" THEN 0
        ELSE IF u = 0 THEN k + 2 * c - 3
        ELSE IF kind = "ac" /\ u \in {1, 8} THEN 4 - u
        ELSE 0]

\* d.progCoeffs after the scans: the stores of the components the scans
\* named, as processSOS allocates them, with the coefficients decoded
reconStores(in) ==
    Only({ [c \in 0..2 |-> [k \in 1..Len(a[c]) |-> storedBlock(in.kind, c, k)]] :
             a \in {allocProgCoeffs([c \in 0..2 |-> <<>>],
                                    [nComp |-> Len(in.comp), comp |-> in.comp],
                                    in.named, reconMxx(in), reconMyy(in))} })

ReconInit ==
    /\ pIn \in { [comp |-> comp, width |-> width, height |-> height,
                  named |-> named, kind |-> kind] :
                   comp \in ReconComps,
                   width \in {8, 9, 16, MaxReconSide}, height \in {8, 9, MaxReconSide},
                   named \in { <<>>, <<0>>, <<1>>, <<0, 2>>, <<0, 1, 2>> },
                   kind \in {"zero", "dc", "ac"} }
    /\ \A j \in 1..Len(pIn.named) : pIn.named[j] < Len(pIn.comp)
    /\ pOut = [i |-> 0, bx |-> 0, by |-> 0, calls |-> <<>>,
               progCoeffs |-> reconStores(pIn), err |-> "nil"]
    /\ pPc = "component"
    /\ NotCallIdle

\* if d.progCoeffs[i] == nil without the test
storeIsNil_Never(progCoeffs, i) == FALSE

\* d.progCoeffs[i] == nil
storeIsNil(progCoeffs, i) == progCoeffs[i] = <<>>

\* the bounds of the loops over by and bx with the steps of the Y component
reconSteps_OfY(comp, i) == [v |-> 8, h |-> 8]

\* v := 8 * d.comp[0].v / d.comp[i].v; h := 8 * d.comp[0].h / d.comp[i].h
reconSteps(comp, i) ==
    [v |-> (8 * comp[1].v) \div comp[i + 1].v, h |-> (8 * comp[1].h) \div comp[i + 1].h]

\* the quantization tables d.quant the DQT segments gave, in zig-zag order;
\* d.comp[compIndex].tq is 0 for Y and 1 for Cb and Cr
reconQuant(compIndex) == bandQuant[90][(IF compIndex = 0 THEN 0 ELSE 1) + 1]

\* the zig-zag position of the coefficient u
zigOf(u) == CHOOSE z \in 0..(blockSize - 1) : unzig[z + 1] = u

\* the index of qt in the 64 statements "b[n] *= qt[...]" of reconstructBlock,
\* for n = 0, 1, ..., 63
dequantIndex ==
    << 0, 1, 5, 6, 14, 15, 27, 28,
       2, 4, 7, 13, 16, 26, 29, 42,
       3, 8, 12, 17, 25, 30, 41, 43,
       9, 11, 18, 24, 31, 40, 44, 53,
       10, 19, 23, 32, 39, 45, 52, 54,
       20, 22, 33, 38, 46, 51, 55, 60,
       21, 34, 37, 47, 50, 56, 59, 61,
       35, 36, 48, 49, 57, 58, 62, 63 >>

\* the dequantization with every coefficient multiplied by the entry of qt
\* at its own index
dequantize_NaturalOrder(b, qt) == [u \in 0..(blockSize - 1) |-> b[u] * qt[u + 1]]

\* the unrolled dequantization loop of reconstructBlock
dequantize(b, qt) == [u \in 0..(blockSize - 1) |-> b[u] * qt[dequantIndex[u + 1] + 1]]

\* the stride and the length of the plane of the image makeImg allocated for
\* the component: image.NewGray(8*mxx, 8*myy), or image.NewYCbCr(8*h0*mxx,
\* 8*v0*myy, ratio) with the ratio h0/h1, v0/v1
planeOf(in, compIndex) ==
    LET w == 8 * in.comp[1].h * reconMxx(in)
        ht == 8 * in.comp[1].v * reconMyy(in)
        hRatio == IF compIndex = 0 THEN 1 ELSE in.comp[1].h \div in.comp[2].h
        vRatio == IF compIndex = 0 THEN 1 ELSE in.comp[1].v \div in.comp[2].v
    IN  [stride |-> (w + hRatio - 1) \div hRatio,
         len |-> ((w + hRatio - 1) \div hRatio) * ((ht + vRatio - 1) \div vRatio)]

\* the indices reconstructBlock uses are in range: the block in its store,
\* and dst[7*stride + 7] in the plane from 8*(by*stride + bx) on
inRange(in, progCoeffs, i, bx, by) ==
    /\ by * reconMxx(in) * in.comp[i + 1].h + bx < Len(progCoeffs[i])
    /\ \A pl \in {planeOf(in, i)} :
          8 * (by * pl.stride + bx) + 7 * pl.stride + 7 < pl.len

\* "if d.progCoeffs[i] == nil { continue }"
ReconSkip ==
    /\ pPc = "component"
    /\ pOut.i < Len(pIn.comp)
    /\ storeIsNil(pOut.progCoeffs, pOut.i)
    /\ pOut' = [pOut EXCEPT !.i = @ + 1]
    /\ pPc' = "component"
    /\ UNCHANGED <<pIn, notCallVars>>

\* the loops over by and bx are entered: the width and the height are not 0
ReconEnter ==
    /\ pPc = "component"
    /\ pOut.i < Len(pIn.comp)
    /\ ~storeIsNil(pOut.progCoeffs, pOut.i)
    /\ pOut' = [pOut EXCEPT !.bx = 0, !.by = 0]
    /\ pPc' = "block"
    /\ UNCHANGED <<pIn, notCallVars>>

\* d.reconstructBlock(&d.progCoeffs[i][by*stride+bx], bx, by, i), then bx++
\* and the tests of the two loops
ReconBlock ==
    /\ pPc = "block"
    /\ \E i \in {pOut.i}, bx \in {pOut.bx}, by \in {pOut.by} :
       \E st \in {reconSteps(pIn.comp, i)} :
       \E k \in {by * reconMxx(pIn) * pIn.comp[i + 1].h + bx + 1} :
          IF ~inRange(pIn, pOut.progCoeffs, i, bx, by)
            THEN /\ pOut' = [pOut EXCEPT !.err = "index out of range"]
                 /\ pPc' = "panic"
            ELSE /\ pOut' = [pOut EXCEPT
                               !.calls = Append(@, <<i, bx, by>>),
                               !.progCoeffs[i][k] = dequantize(@, reconQuant(i)),
                               !.bx = IF (bx + 1) * st.h < pIn.width THEN bx + 1 ELSE 0,
                               !.by = IF (bx + 1) * st.h < pIn.width THEN by ELSE by + 1,
                               !.i = IF (bx + 1) * st.h < pIn.width
                                        \/ (by + 1) * st.v < pIn.height THEN i ELSE i + 1]
                 /\ pPc' = IF (bx + 1) * st.h < pIn.width \/ (by + 1) * st.v < pIn.height
                             THEN "block" ELSE "component"
    /\ UNCHANGED <<pIn, notCallVars>>

\* return nil
ReconReturn ==
    /\ pPc = "component"
    /\ pOut.i = Len(pIn.comp)
    /\ pPc' = "done"
    /\ UNCHANGED <<pIn, pOut, notCallVars>>

NextRecon ==
    \/ ReconSkip
    \/ ReconEnter
    \/ ReconBlock
    \/ ReconReturn

SpecRecon == ReconInit /\ [][NextRecon]_vars

\* the number of calls of reconstructBlock for the block k of the store of
\* component c
reconCallsOf(c, k) ==
    Cardinality({ n \in 1..Len(pOut.calls) :
                    /\ pOut.calls[n][1] = c
                    /\ pOut.calls[n][3] * reconMxx(pIn) * pIn.comp[c + 1].h
                         + pOut.calls[n][2] + 1 = k })

\* the block k of the store of component c is inside the pixel bounds: its
\* column is below ceil(ceil(width*h_c/h_0)/8) and its row below
\* ceil(ceil(height*v_c/v_0)/8)
reconInBounds(c, k) ==
    LET stride == reconMxx(pIn) * pIn.comp[c + 1].h
    IN  /\ (k - 1) % stride < ceilDiv(ceilDiv(pIn.width * pIn.comp[c + 1].h, pIn.comp[1].h), 8)
        /\ (k - 1) \div stride < ceilDiv(ceilDiv(pIn.height * pIn.comp[c + 1].v, pIn.comp[1].v), 8)

C22_PrefixReconstructs ==
    /\ pPc # "panic"
    /\ pOut.err = "nil"
    /\ \A n \in 1..Len(pOut.calls) :
          \E j \in 1..Len(pIn.named) : pIn.named[j] = pOut.calls[n][1]
    /\ pPc = "done" =>
          \A c \in 0..(Len(pIn.comp) - 1) :
              \A k \in 1..Len(pOut.progCoeffs[c]) :
                  reconCallsOf(c, k) = 1 =>
                      \A u \in 0..(blockSize - 1) :
                          /\ storedBlock(pIn.kind, c, k)[u] = 0 => pOut.progCoeffs[c][k][u] = 0
                          /\ pOut.progCoeffs[c][k][u]
                               = storedBlock(pIn.kind, c, k)[u] * reconQuant(c)[zigOf(u) + 1]

\* C22 witness: the pass has returned for a 4:2:0 image of 17x17 pixels
\* whose scans named Y and Cr and decoded the DC coefficients only: Cb was
\* skipped
C22_Witness ==
    /\ pPc = "done"
    /\ Len(pIn.comp) = 3 /\ pIn.comp[1].h = 2 /\ pIn.comp[1].v = 2
    /\ pIn.width = 17 /\ pIn.height = 17
    /\ pIn.named = <<0, 2>> /\ pIn.kind = "dc"
    /\ pOut.progCoeffs[1] = <<>>
    /\ Len(pOut.calls) = 9 + 4
    /\ pOut.progCoeffs[0][2][0] = (2 - 3) * reconQuant(0)[1]
    /\ pOut.progCoeffs[0][2][1] = 0

(***************************************************************************)
(* SpecHeader: processSOS from its start to its loops, for one SOS segment *)
(* of n bytes after its length, before any scan or after a first scan.     *)
(***************************************************************************)
MaxHeaderSide == 24

\* the decoder before any SOF segment
noFrame ==
    [d |-> [nComp |-> 0, comp |-> <<>>, progressive |-> FALSE, baseline |-> FALSE],
     width |-> 0, height |-> 0, ri |-> 0]

\* no frame; a gray and a 4:2:0 frame, baseline and progressive
HeaderFrames ==
    {noFrame}
    \cup { frameOf(marker, SubSeq(sofBuf([X |-> MaxHeaderSide, Y |-> 8], nComponent), 1,
                                  6 + 3 * nComponent), 0) :
             marker \in {sof0Marker, sof2Marker}, nComponent \in {1, 3} }

\* the SOS segments after their length: those of ScanPayloads, and segments
\* that are too short, of odd length, of a length that differs from 4 + 2*Ns,
\* with an unknown or a repeated selector, with a table selector of 4 or 2,
\* with the bounds 0..5, 6..5 and 1..64, with two components in the band
\* 1..5, with Ah = 3 and Al = 1
HeaderPayloads ==
    ScanPayloads
    \cup { <<1, 1, 0, 0>>,
           <<1, 1, 0, 0, 0, 0, 0>>,
           <<3, 1, 0, 0, 0, 0>>,
           <<1, 9, 0, 0, 0, 0>>,
           <<2, 1, 0, 1, 0, 0, 0, 0>>,
           <<1, 1, 64, 0, 0, 0>>,
           <<1, 1, 4, 0, 0, 0>>,
           <<1, 1, 32, 0, 63, 0>>,
           <<1, 1, 0, 0, 5, 0>>,
           <<1, 1, 0, 6, 5, 0>>,
           <<1, 1, 0, 1, 64, 0>>,
           <<2, 1, 0, 2, 17, 1, 5, 0>>,
           <<1, 1, 0, 1, 5, 49>> }

\* the decoder before the segment: as processSOF left it, or after a first
\* scan that named Y: the image and the store of Y allocated, coefficients
\* decoded, bits read
HeaderDecoders(f) ==
    { [bits |-> noBits, eobRun |-> 0, progCoeffs |-> [c \in 0..2 |-> <<>>],
       hasImg |-> FALSE, img |-> <<>>] }
    \cup (IF f.d.nComp = 0 THEN {}
          ELSE { [bits |-> someBits, eobRun |-> 0,
                  progCoeffs |-> [c \in 0..2 |->
                                    IF c = 0 /\ f.d.progressive
                                      THEN [k \in 1..(Len(allocProgCoeffs(
                                                            [c2 \in 0..2 |-> <<>>], f.d, <<0>>,
                                                            (f.width + 8 * f.d.comp[1].h - 1)
                                                               \div (8 * f.d.comp[1].h),
                                                            (f.height + 8 * f.d.comp[1].v - 1)
                                                               \div (8 * f.d.comp[1].v))[0])) |->
                                               [zeroBlock EXCEPT ![0] = k]]
                                      ELSE <<>>],
                  hasImg |-> TRUE, img |-> <<>>] })

HeaderInit ==
    /\ \E f \in HeaderFrames :
          pIn \in { [f |-> f, dec |-> dec0, tmp |-> tmp] :
                      dec0 \in HeaderDecoders(f), tmp \in HeaderPayloads }
    /\ pOut = [err |-> "nil", dec |-> pIn.dec, read |-> 0]
    /\ pPc = "sos"
    /\ NotCallIdle

\* processSOS with the image and the stores allocated before the checks of
\* the header
processSOSStart_AllocFirst(dec0, f, n, tmp) ==
    [err |-> processSOSHeader(f.d, n, tmp),
     dec |-> [dec0 EXCEPT !.hasImg = TRUE,
                          !.progCoeffs = [c \in 0..2 |->
                                            IF @[c] = <<>> THEN <<zeroBlock>> ELSE @[c]]],
     read |-> n]

\* processSOS from its start to "d.bits = bits{}": [err, dec, read], the
\* error returned or "nil", the decoder, and the number of bytes readFull
\* has read
processSOSStart(dec0, f, n, tmp) ==
    Only({ IF e0 # "nil"
             THEN [err |-> e0, dec |-> dec0,
                   read |-> IF e0 \in {"missing SOF marker", "SOS has wrong length"}
                              THEN 0 ELSE n]
             ELSE Only({ [err |-> "nil",
                          dec |-> [dec0 EXCEPT
                                      !.hasImg = TRUE,
                                      !.progCoeffs =
                                          IF f.d.progressive
                                            THEN allocProgCoeffs(@, f.d, l.scan, l.mxx, l.myy)
                                            ELSE @,
                                      !.bits = noBits],
                          read |-> n] :
                           l \in {localsOf(f, tmp, sosCompIndex(f.d, n, tmp))} }) :
             e0 \in {processSOSHeader(f.d, n, tmp)} })

\* processSOS(n) for the segment
HeaderSOS ==
    /\ pPc = "sos"
    /\ pOut' = processSOSStart(pIn.dec, pIn.f, Len(pIn.tmp), pIn.tmp)
    /\ pPc' = IF pOut'.err = "nil" THEN "blocks" ELSE "returned"
    /\ UNCHANGED <<pIn, notCallVars>>

NextHeader == HeaderSOS

SpecHeader == HeaderInit /\ [][NextHeader]_vars

\* the errors of processSOS that are a FormatError
FormatErrors ==
    { "missing SOF marker", "SOS has wrong length",
      "SOS length inconsistent with number of components",
      "unknown component selector", "repeated component selector",
      "bad Td value", "bad Ta value", "total sampling factors too large",
      "bad spectral selection bounds",
      "progressive AC coefficients for more than one component",
      "bad successive approximation values" }

\* the segment is malformed in one of the ways of the claim; the bounds and
\* the approximation are those of a progressive frame when progressiveOnly
malformedSOS(f, tmp, progressiveOnly) ==
    LET n == Len(tmp)
        ns == tmp[1]
        sel(i) == tmp[2 * i]
        known(i) == \E j \in 1..f.d.nComp : f.d.comp[j].c = sel(i)
        tables(i) == {tmp[2 * i + 1] \div 16, tmp[2 * i + 1] % 16}
        ss == tmp[2 + 2 * ns]
        se == tmp[3 + 2 * ns]
        ah == tmp[4 + 2 * ns] \div 16
        al == tmp[4 + 2 * ns] % 16
    IN  \/ f.d.nComp = 0
        \/ n < 6 \/ n > 4 + 2 * f.d.nComp \/ n % 2 # 0
        \/ n # 4 + 2 * ns
        \/ \E i \in 1..ns : ~known(i) \/ \E j \in 1..(i - 1) : sel(j) = sel(i)
        \/ \E i \in 1..ns : \E t \in tables(i) : t > maxTh \/ (f.d.baseline /\ t > 1)
        \/ /\ progressiveOnly => f.d.progressive
           /\ \/ ss = 0 /\ se # 0
              \/ ss > se
              \/ se > 63
              \/ ss # 0 /\ ns # 1
              \/ ah # 0 /\ ah # al + 1

\* processSOS has returned an error and left the decoder as it was: no
\* image and no store allocated, no coefficient changed, no byte read after
\* the n bytes of the segment
rejectedUntouched ==
    /\ pPc = "returned"
    /\ pOut.err \in FormatErrors
    /\ pOut.dec = pIn.dec
    /\ pOut.read <= Len(pIn.tmp)

\* C24, as claimed: processSOS returns a FormatError for each malformed SOS
\* header, before it allocates the image or a store, changes a coefficient
\* or reads entropy-coded data.
C24_MalformedRejected ==
    (pPc # "sos" /\ malformedSOS(pIn.f, pIn.tmp, FALSE)) => rejectedUntouched

\* C24, amended: the same, the spectral bounds, the number of components of
\* an AC scan and the approximation being checked in a progressive frame
\* only.
C24_MalformedRejectedProgressive ==
    (pPc # "sos" /\ malformedSOS(pIn.f, pIn.tmp, TRUE)) => rejectedUntouched

\* C24 witness: after a first scan of a progressive 4:2:0 frame, a segment
\* that names Y and Cb for the band 1..5 was rejected and the decoder is as
\* before
C24_Witness ==
    /\ pPc = "returned"
    /\ pIn.f.d.progressive /\ pIn.f.d.nComp = 3
    /\ pIn.tmp = <<2, 1, 0, 2, 17, 1, 5, 0>>
    /\ pIn.dec.hasImg /\ pIn.dec.bits = someBits
    /\ pOut.err = "progressive AC coefficients for more than one component"
    /\ pOut.dec = pIn.dec
    /\ pOut.dec.progCoeffs[1] = <<>>

(***************************************************************************)
(* SpecConcurrent: two calls of Encode on two sinks, their statements      *)
(* interleaved.  The package-level variables are the record g of the       *)
(* state; an encoder e is the value of one call, e.calls the calls its     *)
(* sink has received.                                                      *)
(***************************************************************************)
\* the package-level variables as the program starts: theHuffmanLUT is not
\* yet compiled
packageVars ==
    [theHuffmanSpec |-> theHuffmanSpec,
     theHuffmanLUT |-> [h \in 0..(nHuffIndex - 1) |-> <<>>],
     unscaledQuant |-> unscaledQuant,
     sosHeaderY |-> sosHeaderY,
     sosHeaderYCbCr |-> sosHeaderYCbCr]

\* func init(): theHuffmanLUT[i].init(s) for each s of theHuffmanSpec
packageInit(g) ==
    [g EXCEPT !.theHuffmanLUT =
                 [h \in 0..(nHuffIndex - 1) |-> huffmanLUT_init(g.theHuffmanSpec[h + 1])]]

\* the calls Encode(w, m, o): a baseline and a progressive one for a gray
\* and for a colour image
ConcurrentCalls ==
    { [img |-> [gray |-> TRUE, Dx |-> 8, Dy |-> 8, dct |-> 1], opt |-> NilOptions],
      [img |-> [gray |-> TRUE, Dx |-> 9, Dy |-> 8, dct |-> 2], opt |-> ProgressiveNilScript],
      [img |-> [gray |-> FALSE, Dx |-> 8, Dy |-> 8, dct |-> 2], opt |-> OptionsOfQuality(50)],
      [img |-> [gray |-> FALSE, Dx |-> 16, Dy |-> 9, dct |-> 2],
       opt |-> ProgressiveOptions(ExampleScript)] }

\* a call that has not started
newCall == [pc |-> "start", e |-> freshEncoder, script |-> <<>>, scanIdx |-> 0]

ConcurrentInit ==
    /\ pIn \in [{1, 2} -> ConcurrentCalls]
    /\ pOut = [g |-> packageVars, p |-> [i \in {1, 2} |-> newCall]]
    /\ pPc = "init"
    /\ NotCallIdle

\* the header of a scan of one component patched into the slice sosHeaderY
\* of the package
scanHeader_SharedSlice(g, component) ==
    IF component # -1
      THEN Only({ [g |-> g2, header |-> SubSeq(g2.sosHeaderY, 1, 7)] :
                    g2 \in {[g EXCEPT !.sosHeaderY[6] = U8(component + 1),
                                      !.sosHeaderY[7] = IF component = 1 \/ component = 2
                                                          THEN 17 ELSE 0]} })
      ELSE [g |-> g, header |-> sosHeaderShort(component)]

\* writeProgressiveSOS, the SOS marker, length and component list: the
\* slices sosHeaderYShort and sosHeaderYCbCrShort are variables of the call
scanHeader(g, component) == [g |-> g, header |-> sosHeaderShort(component)]

\* writeProgressiveSOS for the scan sc, its header being header
progressiveSOSOf(header, e, img, sc) ==
    Only({ alignAndReset(emit(e3, 127, 7)) :
             e3 \in {processImageBlocks(
                        eWrite(eWrite(e, header),
                               progressiveScript(sc.SpectralStart, sc.SpectralEnd,
                                                 sc.SuccessiveApproxHigh,
                                                 sc.SuccessiveApproxLow)),
                        img, sc.Component,
                        [partial |-> TRUE, ss |-> sc.SpectralStart, se |-> sc.SpectralEnd])} })

\* one statement of Encode or of writeProgressive for the call c, whose
\* state is pr: [g, pr], the package-level variables and the call after it
encodeStep(g, pr, c) ==
    LET nComponent == nComponentOf(c.img)
        size == [X |-> c.img.Dx, Y |-> c.img.Dy]
        progressive == ~c.opt.isNil /\ c.opt.Progressive
        to(e2, next) == [g |-> g, pr |-> [pr EXCEPT !.e = e2, !.pc = next]]
    IN  CASE pr.pc = "start" ->
               to([pr.e EXCEPT !.quant =
                      [i \in 1..nQuantIndex |->
                          [j \in 1..blockSize |->
                              quantEntry(g.unscaledQuant[i][j], scaleOf(clipQuality(c.opt)))]]],
                  "soi")
          [] pr.pc = "soi" -> to(eWrite(pr.e, <<255, 216>>), "dqt")
          [] pr.pc = "dqt" -> to(writeDQT(pr.e), "sof")
          [] pr.pc = "sof" ->
               to(writeSOF(pr.e, size, nComponent,
                           IF progressive THEN sof2Marker ELSE sof0Marker), "dht")
          [] pr.pc = "dht" ->
               to(writeDHT(pr.e, nComponent), IF progressive THEN "script" ELSE "sos")
          [] pr.pc = "sos" ->
               to(Only({ emit(e2, 127, 7) :
                           e2 \in {processImageBlocks(
                                      eWrite(pr.e, IF c.img.gray THEN g.sosHeaderY
                                                   ELSE g.sosHeaderYCbCr),
                                      c.img, -1, [partial |-> FALSE, ss |-> 0, se |-> 63])} }),
                  "eoi")
          [] pr.pc = "script" ->
               [g |-> g,
                pr |-> [pr EXCEPT !.script = effectiveScript(c.opt, nComponent),
                                  !.scanIdx = 1, !.pc = "scan"]]
          [] pr.pc = "scan" ->
               Only({ [g |-> hd.g,
                       pr |-> [pr EXCEPT
                                  !.e = progressiveSOSOf(hd.header, @, c.img,
                                                         pr.script[pr.scanIdx]),
                                  !.scanIdx = @ + 1,
                                  !.pc = IF pr.scanIdx = Len(pr.script) THEN "eoi"
                                         ELSE "scan"]] :
                        hd \in {scanHeader(g, pr.script[pr.scanIdx].Component)} })
          [] pr.pc = "eoi" -> to(eWrite(pr.e, <<255, 217>>), "flush")
          [] OTHER -> to(eFlush(pr.e), "done")

\* the initialisation of the package, before main
ConcurrentPackageInit ==
    /\ pPc = "init"
    /\ pOut' = [pOut EXCEPT !.g = packageInit(@)]
    /\ pPc' = "running"
    /\ UNCHANGED <<pIn, notCallVars>>

\* one of the two calls executes its next statement
ConcurrentStep ==
    /\ pPc = "running"
    /\ \E i \in {1, 2} :
          /\ pOut.p[i].pc # "done"
          /\ \E r \in {encodeStep(pOut.g, pOut.p[i], pIn[i])} :
                pOut' = [g |-> r.g, p |-> [pOut.p EXCEPT ![i] = r.pr]]
    /\ pPc' = "running"
    /\ UNCHANGED <<pIn, notCallVars>>

\* the two calls have returned
ConcurrentDone ==
    /\ pPc = "running"
    /\ \A i \in {1, 2} : pOut.p[i].pc = "done"
    /\ pPc' = "done"
    /\ UNCHANGED <<pIn, pOut, notCallVars>>

NextConcurrent ==
    \/ ConcurrentPackageInit
    \/ ConcurrentStep
    \/ ConcurrentDone

SpecConcurrent == ConcurrentInit /\ [][NextConcurrent]_vars

\* the call c running alone from the state pr, the package-level variables
\* being g: the call when it has returned
RECURSIVE runAlone(_, _, _)
runAlone(g, pr, c) ==
    IF pr.pc = "done" THEN pr
    ELSE Only({ runAlone(r.g, r.pr, c) : r \in {encodeStep(g, pr, c)} })

\* what the sink of each call receives when the call runs alone
aloneCalls == [c \in ConcurrentCalls |-> runAlone(packageInit(packageVars), newCall, c).e.calls]

\* C23: after the initialisation of the package no statement of an Encode
\* call changes theHuffmanSpec, theHuffmanLUT, unscaledQuant or the SOS
\* header slices, and in every interleaving of two calls each sink receives
\* what it receives when its call runs alone.
C23_TablesReadOnly ==
    pPc # "init" =>
        /\ pOut.g = packageInit(packageVars)
        /\ pOut.g.theHuffmanLUT = theHuffmanLUT
        /\ \A i \in {1, 2} :
              pOut.p[i].pc = "done" => pOut.p[i].e.calls = aloneCalls[pIn[i]]

\* C23 witness: a baseline call for a gray image has returned while a
\* progressive call for a colour image, which has written its Cb scan, is
\* still running
C23_Witness ==
    /\ pPc = "running"
    /\ pIn[1].img.gray /\ pIn[1].opt.isNil
    /\ ~pIn[2].img.gray /\ pIn[2].opt = ProgressiveOptions(ExampleScript)
    /\ pOut.p[1].pc = "done"
    /\ pOut.p[2].pc = "scan" /\ pOut.p[2].scanIdx = 5
    /\ Len(pOut.p[1].e.calls) > 10

(***************************************************************************)
(* SpecMarker: one marker segment written by a fresh encoder.  pIn is the  *)
(* segment asked for, pOut the bytes the sink received.                    *)
(***************************************************************************)
\* the sides of the frames of the SOF segments
MarkerSides == {1, 255, 256, 65535}

\* the spectral selections and approximations of the progressive SOS segments
MarkerScans == { <<0, 0, 0, 0>>, <<1, 63, 0, 0>>, <<1, 5, 1, 0>>, <<0, 0, 0, 1>> }

\* the segments: what the encoder is asked to write
MarkerCalls ==
    { [kind |-> "DQT", quality |-> q] : q \in {1, 50, 100} }
    \cup { [kind |-> "SOF", size |-> [X |-> x, Y |-> y], nComponent |-> n, marker |-> mk] :
             x \in MarkerSides, y \in MarkerSides, n \in {1, 3},
             mk \in {sof0Marker, sof2Marker} }
    \cup { [kind |-> "DHT", nComponent |-> n] : n \in {1, 3} }
    \cup { [kind |-> "SOS", gray |-> gy] : gy \in BOOLEAN }
    \cup { [kind |-> "progressive SOS", component |-> c, scan |-> sc] :
             c \in -1..2, sc \in MarkerScans }

MarkerInit ==
    /\ pIn \in MarkerCalls
    /\ pOut = <<>>
    /\ pPc = "call"
    /\ NotCallIdle

\* the bytes the sink of e has received
bytesWritten(e) == Flatten([k \in 1..Len(e.calls) |-> e.calls[k].p])

\* e.writeDQT()
MarkerDQT ==
    /\ pPc = "call" /\ pIn.kind = "DQT"
    /\ pOut' = bytesWritten(writeDQT([freshEncoder EXCEPT !.quant = initQuant(pIn.quality)]))
    /\ pPc' = "written"
    /\ UNCHANGED <<pIn, notCallVars>>

\* e.writeSOF(size, nComponent, marker)
MarkerSOF ==
    /\ pPc = "call" /\ pIn.kind = "SOF"
    /\ pOut' = bytesWritten(writeSOF(freshEncoder, pIn.size, pIn.nComponent, pIn.marker))
    /\ pPc' = "written"
    /\ UNCHANGED <<pIn, notCallVars>>

\* e.writeDHT(nComponent)
MarkerDHT ==
    /\ pPc = "call" /\ pIn.kind = "DHT"
    /\ pOut' = bytesWritten(writeDHT(freshEncoder, pIn.nComponent))
    /\ pPc' = "written"
    /\ UNCHANGED <<pIn, notCallVars>>

\* writeSOS up to e.processImageBlocks
MarkerSOS ==
    /\ pPc = "call" /\ pIn.kind = "SOS"
    /\ pOut' = bytesWritten(eWrite(freshEncoder,
                                   IF pIn.gray THEN sosHeaderY ELSE sosHeaderYCbCr))
    /\ pPc' = "written"
    /\ UNCHANGED <<pIn, notCallVars>>

\* writeProgressiveSOS up to e.processImageBlocks
MarkerProgressiveSOS ==
    /\ pPc = "call" /\ pIn.kind = "progressive SOS"
    /\ pOut' = bytesWritten(eWrite(eWrite(freshEncoder, sosHeaderShort(pIn.component)),
                                   progressiveScript(pIn.scan[1], pIn.scan[2],
                                                     pIn.scan[3], pIn.scan[4])))
    /\ pPc' = "written"
    /\ UNCHANGED <<pIn, notCallVars>>

NextMarker ==
    \/ MarkerDQT
    \/ MarkerSOF
    \/ MarkerDHT
    \/ MarkerSOS
    \/ MarkerProgressiveSOS

SpecMarker == MarkerInit /\ [][NextMarker]_vars

\* C32: every marker segment the encoder writes starts with 0xff and its
\* marker, and its 16-bit length field is 2 plus the number of payload bytes
\* written after the field.
C32_LengthField ==
    pPc = "written" =>
        /\ Len(pOut) >= 4
        /\ pOut[1] = 255
        /\ pOut[3] * 256 + pOut[4] = 2 + (Len(pOut) - 4)

\* C32 witness: the DHT segment of a one-component image, two tables long,
\* has been written
C32_Witness ==
    /\ pPc = "written"
    /\ pIn.kind = "DHT" /\ pIn.nComponent = 1
    /\ pOut[2] = dhtMarker
    /\ Len(pOut) = 4 + (1 + 16 + 12) + (1 + 16 + 162)

(***************************************************************************)
(* SpecEob: one AC scan of one component of a progressive image of         *)
(* MaxEobBlocks blocks in a row, one block per MCU, block by block.  pIn   *)
(* is the scan: ah, al, the restart interval ri, what the entropy decoder  *)
(* returns during the scan, the coefficients stored before the scan, and   *)
(* d.eobRun as the scan before left it.  pOut is the state of processSOS   *)
(* between two blocks, with a record of the block decoded last.            *)
(***************************************************************************)
MaxEobBlocks == 4
MaxEobPieces == 3

\* what the entropy decoder returns, in pieces: end-of-block runs of 1, 3 and
\* 32767 blocks, a new coefficient with its sign or value, and raw bits
EobPieces ==
    { <<0>>, <<16, 1>>, <<224, 16383>>, <<1, 3>>, <<17, 3>>, <<3>>, <<2, 3, 3>> }

\* the sequences of at most n pieces, joined
RECURSIVE eobStreams(_)
eobStreams(n) ==
    IF n = 0 THEN { <<>> }
    ELSE { <<>> } \cup { piece \o rest : piece \in EobPieces, rest \in eobStreams(n - 1) }

\* a block stored by the scans before: two coefficients of the band, one
\* after it, and the DC coefficient
storedBefore ==
    [u \in 0..(blockSize - 1) |->
        IF u = 0 THEN 16
        ELSE IF u = unzig[3] THEN 4
        ELSE IF u = unzig[5] THEN -4
        ELSE IF u = unzig[8] THEN 8
        ELSE 0]

\* the scans, of the band 1..5: a first pass over blocks without coefficients
\* in the band, or a refinement pass
EobScans ==
    { [zigStart |-> 1, zigEnd |-> 5, ah |-> 0, al |-> 0, ri |-> ri, in |-> in, block |-> zeroBlock, eobRun |-> n] :
        ri \in {0, 2}, in \in eobStreams(MaxEobPieces), n \in {0, 2} }
    \cup { [zigStart |-> 1, zigEnd |-> 5, ah |-> 1, al |-> 1, ri |-> ri, in |-> in,
             block |-> b, eobRun |-> n] :
        ri \in {0, 2}, in \in eobStreams(MaxEobPieces), b \in {zeroBlock, storedBefore},
        n \in {0, 2} }

\* nothing decoded yet
noBlock == [eobBefore |-> 0, consumed |-> <<>>, before |-> zeroBlock, after |-> zeroBlock,
            err |-> "nil"]

\* the number of blocks an end-of-block run code read first in a block
\* announces, 0 if the first value read is no such code
announced(consumed) ==
    IF consumed = <<>> \/ consumed[1] % 16 # 0 \/ consumed[1] = 240 THEN 0
    ELSE IF consumed[1] = 0 THEN 1
    ELSE IF Len(consumed) < 2 THEN 0
    ELSE Pow2(consumed[1] \div 16) + consumed[2]

\* the blocks still to be ended by the run announced last, -1 when no run
\* was announced: pending before the block, for which the record last is
pendingAfter(pending, last) ==
    IF last.err # "nil" THEN -1
    ELSE IF pending > 0 THEN pending - 1
    ELSE IF last.eobBefore = 0 /\ announced(last.consumed) > 0
      THEN announced(last.consumed) - 1
    ELSE -1

EobInit ==
    /\ pIn \in EobScans
    /\ pOut = [mcu |-> 0, eobRun |-> pIn.eobRun, in |-> pIn.in,
               blocks |-> [k \in 1..MaxEobBlocks |-> pIn.block],
               last |-> noBlock, pendingScan |-> -1, pendingInterval |-> -1]
    /\ pPc = "blocks"
    /\ NotCallIdle

\* one iteration of the loops of processSOS for the block of the MCU mcu
EobBlock ==
    /\ pPc = "blocks"
    /\ pOut.mcu < MaxEobBlocks
    /\ \E r \in {decodeBlock([b |-> pOut.blocks[pOut.mcu + 1], eobRun |-> pOut.eobRun,
                              dc |-> <<0, 0, 0, 0>>, in |-> pOut.in, err |-> "nil"],
                             0, pIn.zigStart, pIn.zigEnd, pIn.ah, pIn.al)} :
       \E l \in {[eobBefore |-> pOut.eobRun,
                  consumed |-> SubSeq(pOut.in, 1, Len(pOut.in) - Len(r.in)),
                  before |-> pOut.blocks[pOut.mcu + 1],
                  after |-> r.b,
                  err |-> r.err]} :
          /\ pOut' = [mcu |-> IF r.err = "nil" THEN pOut.mcu + 1 ELSE pOut.mcu,
                      eobRun |-> r.eobRun,
                      in |-> r.in,
                      blocks |-> IF r.err = "nil"
                                   THEN [pOut.blocks EXCEPT ![pOut.mcu + 1] = r.b]
                                   ELSE pOut.blocks,
                      last |-> l,
                      pendingScan |-> pendingAfter(pOut.pendingScan, l),
                      pendingInterval |-> pendingAfter(pOut.pendingInterval, l)]
          /\ pPc' = IF r.err # "nil" THEN "error"
                    ELSE IF pIn.ri > 0 /\ (pOut.mcu + 1) % pIn.ri = 0
                            /\ pOut.mcu + 1 < MaxEobBlocks THEN "restart"
                    ELSE IF pOut.mcu + 1 < MaxEobBlocks THEN "blocks"
                    ELSE "done"
    /\ UNCHANGED <<pIn, notCallVars>>

\* processSOS at a restart boundary, the marker being the expected one
EobRestart ==
    /\ pPc = "restart"
    /\ \E st \in {afterRST([dec |-> [bits |-> someBits, eobRun |-> pOut.eobRun],
                            loc |-> [expectedRST |-> rst0Marker, dc |-> <<0, 0, 0, 0>>]])} :
          pOut' = [pOut EXCEPT !.eobRun = st.dec.eobRun,
                               !.last = noBlock,
                               !.pendingInterval = IF @ > 0 THEN 0 ELSE @]
    /\ pPc' = "blocks"
    /\ UNCHANGED <<pIn, notCallVars>>

NextEob ==
    \/ EobBlock
    \/ EobRestart

SpecEob == EobInit /\ [][NextEob]_vars

\* the coefficients of the band that are not 0 in the block b
nonZeroInBand(b) == { z \in pIn.zigStart..pIn.zigEnd : b[unzig[z + 1]] # 0 }

\* the block decoded last was ended by a pending run: the counter went down
\* by one and no Huffman symbol was read, only, in a refinement, the one bit
\* of every coefficient of the band that is not 0
coveredBlockOk ==
    (pOut.last.err = "nil" /\ pOut.last.eobBefore > 0) =>
        /\ pOut.eobRun = pOut.last.eobBefore - 1
        /\ Len(pOut.last.consumed) =
              (IF pIn.ah # 0 THEN Cardinality(nonZeroInBand(pOut.last.before)) ELSE 0)
        /\ pIn.ah = 0 => pOut.last.after = pOut.last.before

\* C33 as stated: a run code announcing N blocks ends its block and exactly
\* the next N-1 blocks of the scan, whatever lies between them; the counter
\* goes down once per block ended and stays within 0..65535.
C33_RunCoversNextBlocks ==
    /\ pOut.eobRun \in 0..65535
    /\ coveredBlockOk
    /\ pOut.pendingScan >= 0 => pOut.eobRun = pOut.pendingScan

\* C33: a run code announcing N blocks ends its block and the next N-1
\* blocks of the scan that come before the next restart boundary, where the
\* counter is set to 0; for these blocks no Huffman symbol is read, the
\* counter goes down once per block ended and stays within 0..65535.
C33_RunCoversUntilRestart ==
    /\ pOut.eobRun \in 0..65535
    /\ coveredBlockOk
    /\ pOut.pendingInterval >= 0 => pOut.eobRun = pOut.pendingInterval

\* C33 witness: in a refinement scan the first block announced a run of 3
\* blocks and the second and third blocks were ended by it, each reading the
\* bits of its two coefficients only
C33_Witness ==
    /\ pIn.ah = 1 /\ pIn.block = storedBefore /\ pIn.eobRun = 0 /\ pIn.ri = 0
    /\ pOut.mcu = 3
    /\ pOut.eobRun = 0 /\ pOut.pendingInterval = 0
    /\ pOut.last.eobBefore = 1
    /\ Len(pOut.last.consumed) = 2

\* the block decoded last was a block of a refinement scan
refinedLast == pIn.ah # 0 /\ pOut.last.err = "nil" /\ pOut.last.consumed # <<>>

\* x after a refinement bit: unchanged, or delta further from 0
refinedBy(x, bit, delta) ==
    IF bit % 2 = 0 THEN x ELSE IF x >= 0 THEN x + delta ELSE x - delta

\* the coefficients of the band that are not 0 in b, in zig-zag order
nonZeroSeq(b) ==
    LET Body(acc, z) == IF b[unzig[z + 1]] # 0 THEN Append(acc, z) ELSE acc
    IN  ForRange(Body, <<>>, pIn.zigStart, pIn.zigEnd)

\* the raw bits read when the end of the block was declared at the start of
\* the band: all that was read in a block ended by a pending run, and what
\* follows the run code when the block started with one
bitsAfterEnd ==
    LET c == pOut.last.consumed
    IN  IF pOut.last.eobBefore > 0 THEN c
        ELSE IF c[1] = 0 THEN Tail(c)
        ELSE Tail(Tail(c))

MaxRSTLen == 5

\* the bytes of the inputs: stuffing, filler, RST0, RST7, and a data byte
RSTBytes == {0, 255, rst0Marker, rst7Marker, 18}

RECURSIVE seqsUpTo(_, _)
seqsUpTo(S, n) ==
    IF n = 0 THEN { <<>> }
    ELSE { <<>> } \cup { <<x>> \o rest : x \in S, rest \in seqsUpTo(S, n - 1) }

FindRSTInit ==
    /\ pIn \in { [input |-> in, expectedRST |-> e0] :
                   in \in { w \in seqsUpTo(RSTBytes, MaxRSTLen) : Len(w) >= 2 },
                   e0 \in {rst0Marker, rst7Marker} }
    /\ pOut = [tmp |-> SubSeq(pIn.input, 1, 2), used |-> 2, err |-> "nil", usedBefore |-> 0]
    /\ pPc = "loop"
    /\ NotCallIdle

\* one iteration of findRST that reads two new bytes when only d.tmp[1] is
\* 0xff
findRSTIteration_SkipsTwo(r, input, expectedRST) ==
    IF r.tmp[1] = 255
      THEN IF r.tmp[2] = expectedRST THEN [r |-> r, returned |-> TRUE]
           ELSE IF r.tmp[2] = 255
             THEN Only({ [r |-> r2, returned |-> r2.err # "nil"] :
                           r2 \in {readTmp(r, input, 1)} })
           ELSE IF r.tmp[2] # 0
             THEN [r |-> [r EXCEPT !.err = "bad RST marker"], returned |-> TRUE]
           ELSE Only({ [r |-> r2, returned |-> r2.err # "nil"] :
                         r2 \in {readTmp(r, input, 0)} })
    ELSE Only({ [r |-> r2, returned |-> r2.err # "nil"] : r2 \in {readTmp(r, input, 0)} })

\* one iteration of the loop of findRST: the window and what was read after
\* it, and whether findRST has returned
findRSTIteration(r, input, expectedRST) ==
    IF r.tmp[1] = 255
      THEN IF r.tmp[2] = expectedRST THEN [r |-> r, returned |-> TRUE]
           ELSE IF r.tmp[2] = 255
             THEN Only({ [r |-> r2, returned |-> r2.err # "nil"] :
                           r2 \in {readTmp(r, input, 1)} })
           ELSE IF r.tmp[2] # 0
             THEN [r |-> [r EXCEPT !.err = "bad RST marker"], returned |-> TRUE]
           ELSE Only({ [r |-> r2, returned |-> r2.err # "nil"] :
                         r2 \in {readTmp(r, input, 0)} })
    ELSE IF r.tmp[2] = 255
      THEN Only({ [r |-> r2, returned |-> r2.err # "nil"] :
                    r2 \in {readTmp([r EXCEPT !.tmp[1] = 255], input, 1)} })
    ELSE Only({ [r |-> r2, returned |-> r2.err # "nil"] : r2 \in {readTmp(r, input, 0)} })

\* one iteration of "for { ... }"
FindRSTIterate ==
    /\ pPc = "loop"
    /\ \E it \in {findRSTIteration([tmp |-> pOut.tmp, used |-> pOut.used, err |-> pOut.err],
                                   pIn.input, pIn.expectedRST)} :
          /\ pOut' = [tmp |-> it.r.tmp, used |-> it.r.used, err |-> it.r.err,
                      usedBefore |-> pOut.used]
          /\ pPc' = IF it.returned THEN "returned" ELSE "loop"
    /\ UNCHANGED <<pIn, notCallVars>>

NextFindRST == FindRSTIterate

\* the loop goes on as long as findRST has not returned
SpecFindRST == FindRSTInit /\ [][NextFindRST]_vars /\ WF_vars(NextFindRST)

\* the pair of bytes at j of the input is FF <expectedRST>
isExpectedAt(j) == pIn.input[j] = 255 /\ pIn.input[j + 1] = pIn.expectedRST

\* the pair of bytes at j of the input is FF M, M not 00, FF or expectedRST
isFatalAt(j) ==
    pIn.input[j] = 255 /\ pIn.input[j + 1] \notin {0, 255, pIn.expectedRST}

\* the first pair of the input that is FF <expectedRST> or fatal, or 0
firstDecisive ==
    IF \E j \in 1..(Len(pIn.input) - 1) : isExpectedAt(j) \/ isFatalAt(j)
      THEN CHOOSE j \in 1..(Len(pIn.input) - 1) :
             /\ isExpectedAt(j) \/ isFatalAt(j)
             /\ \A i \in 1..(j - 1) : ~(isExpectedAt(i) \/ isFatalAt(i))
      ELSE 0

\* findRST has returned as the first decisive pair of the input tells
returnedRight ==
    \A j \in {firstDecisive} :
        IF j = 0 THEN pOut.err = errUnexpectedEOF /\ pOut.used = Len(pIn.input)
        ELSE /\ pOut.used = j + 1
             /\ pOut.tmp = SubSeq(pIn.input, j, j + 1)
             /\ pOut.err = IF isExpectedAt(j) THEN "nil" ELSE "bad RST marker"

\* C35: every iteration of findRST that does not return moves its window by
\* 1 or 2 bytes; on every input findRST returns, with success at the first
\* pair FF <expectedRST> that no fatal pair precedes, with a FormatError at
\* the first fatal pair FF M that no pair FF <expectedRST> precedes, and with
\* the error of the reader when the input holds neither.
C35_FindRSTTerminates ==
    /\ [](pPc = "loop" => pOut.used - pOut.usedBefore \in {1, 2})
    /\ [](pPc = "returned" => returnedRight)
    /\ <>(pPc = "returned")

\* C35 witness: findRST has found FF <expectedRST> after a stuffed FF 00 and
\* a filler FF, having read all five bytes of the input
C35_Witness ==
    /\ pPc = "returned"
    /\ pIn.input = <<255, 0, 255, 255, pIn.expectedRST>>
    /\ pOut.err = "nil"
    /\ pOut.used = 5

(***************************************************************************)
(* SpecSchedule: the restart boundaries of two scans of a progressive gray *)
(* image, one step per MCU and per boundary; what the blocks hold is left  *)
(* out.  pIn is the frame; pOut is [loc, scans, log], log being the        *)
(* boundaries of the scan so far, each <<mcu, expectedRST>>.               *)
(***************************************************************************)
MaxScheduleColumns == 5
MaxScheduleInterval == 3

\* the frames: one or two rows of MCUs of one block
ScheduleFrames ==
    { frameOf(sof2Marker, SubSeq(sofBuf([X |-> 8 * c, Y |-> 8 * r], 1), 1, 9), ri) :
        c \in 1..MaxScheduleColumns, r \in 1..2, ri \in 0..MaxScheduleInterval }

ScheduleInit ==
    /\ pIn \in ScheduleFrames
    /\ pOut = [loc |-> noLocals, scans |-> 0, log |-> <<>>]
    /\ pPc = "sos"
    /\ NotCallIdle

\* processSOS from its start to its loops, for the DC scan of the component
ScheduleSOS ==
    /\ pPc = "sos"
    /\ pOut.scans < 2
    /\ \E tmp \in {<<1, 1, 0, 0, 0, 0>>} :
          pOut' = [loc |-> localsOf(pIn, tmp, sosCompIndex(pIn.d, Len(tmp), tmp)),
                   scans |-> pOut.scans + 1,
                   log |-> <<>>]
    /\ pPc' = "blocks"
    /\ UNCHANGED <<pIn, notCallVars>>

\* the block of one MCU was decoded: mcu++ and the test of the boundary
ScheduleMCU ==
    /\ pPc = "blocks"
    /\ \E l \in {afterBlock(pOut.loc, 1)} :
       \E next \in {pcAfterBlock(l, pIn.ri)} :
          /\ pOut' = [pOut EXCEPT
                         !.loc = l,
                         !.log = IF next = "restart"
                                   THEN Append(@, <<l.mcu, l.expectedRST>>) ELSE @]
          /\ pPc' = next
    /\ UNCHANGED <<pIn, notCallVars>>

\* the boundary, the marker read being the expected one
ScheduleRestart ==
    /\ pPc = "restart"
    /\ \E st \in {afterRST([dec |-> [bits |-> someBits, eobRun |-> 0], loc |-> pOut.loc])} :
          pOut' = [pOut EXCEPT !.loc = st.loc]
    /\ pPc' = "blocks"
    /\ UNCHANGED <<pIn, notCallVars>>

NextSchedule ==
    \/ ScheduleSOS
    \/ ScheduleMCU
    \/ ScheduleRestart

SpecSchedule == ScheduleInit /\ [][NextSchedule]_vars

\* the MCUs, among the first n of a scan, after which a marker is expected
boundariesUpTo(n) ==
    IF pIn.ri = 0 THEN 0
    ELSE Cardinality({ j \in 1..n : j % pIn.ri = 0 /\ j < pOut.loc.mxx * pOut.loc.myy })

\* C36: with ri > 0 a restart marker is expected after every ri-th MCU of a
\* scan but the last, the k-th of them (k = 0, 1, ...) being RST(k mod 8),
\* in every scan from RST0 on; with ri = 0 none is expected.
C36_RestartSchedule ==
    pOut.scans > 0 =>
        /\ Len(pOut.log) = boundariesUpTo(pOut.loc.mcu)
        /\ \A k \in 1..Len(pOut.log) :
              pOut.log[k] = <<k * pIn.ri, rst0Marker + ((k - 1) % 8)>>
        /\ pPc = "sos" => pOut.loc.mcu = pOut.loc.mxx * pOut.loc.myy

\* C36 witness: in the second scan of an image of ten MCUs with ri = 1 the
\* ninth marker is expected, RST0 again
C36_Witness ==
    /\ pPc = "restart"
    /\ pOut.scans = 2
    /\ pIn.ri = 1
    /\ Len(pOut.log) = 9
    /\ pOut.log[9] = <<9, rst0Marker>>
    /\ pOut.log[8] = <<8, rst7Marker>>

(***************************************************************************)
(* SpecDequant: the dequantization of reconstructBlock for one block.  pIn *)
(* is the block and the quantization table, in zig-zag order; pOut is the  *)
(* block after the 64 multiplications.                                     *)
(***************************************************************************)
\* blocks with one coefficient, and a block with all of them
DequantBlocks ==
    { [u \in 0..(blockSize - 1) |-> IF u = n THEN v ELSE 0] :
        n \in 0..(blockSize - 1), v \in {1, -3} }
    \cup { [u \in 0..(blockSize - 1) |-> u - 31] }

\* a table whose 64 entries differ, and the tables of the quality 90
DequantTables ==
    { [z \in 1..blockSize |-> z] } \cup { reconQuant(c) : c \in 0..1 }

DequantInit ==
    /\ pIn \in [b : DequantBlocks, qt : DequantTables]
    /\ pOut = <<>>
    /\ pPc = "call"
    /\ NotCallIdle

\* reconstructBlock up to idct(b)
DequantBlock ==
    /\ pPc = "call"
    /\ pOut' = dequantize(pIn.b, pIn.qt)
    /\ pPc' = "dequantized"
    /\ UNCHANGED <<pIn, notCallVars>>

NextDequant == DequantBlock

SpecDequant == DequantInit /\ [][NextDequant]_vars

\* C37: the indices of qt in the dequantization of reconstructBlock are a
\* bijection on 0..63 and the inverse of unzig, so that every coefficient is
\* multiplied once by the entry of the table at its own zig-zag position.
C37_DequantInverseZigZag ==
    pPc = "dequantized" =>
        /\ \A z \in 0..(blockSize - 1) :
              Cardinality({ n \in 0..(blockSize - 1) : dequantIndex[n + 1] = z }) = 1
        /\ \A n \in 0..(blockSize - 1) :
              /\ unzig[dequantIndex[n + 1] + 1] = n
              /\ pOut[n] = pIn.b[n] * pIn.qt[zigOf(n) + 1]

\* C37 witness: the coefficient 10 of a block, whose zig-zag position is 7,
\* was multiplied by the entry at 7, which is 8, of a table whose entries all
\* differ
C37_Witness ==
    /\ pPc = "dequantized"
    /\ pIn.qt = [z \in 1..blockSize |-> z]
    /\ pIn.b[10] = -3
    /\ pOut[10] = -3 * 8
    /\ \A u \in 0..(blockSize - 1) : u # 10 => pOut[u] = 0

(***************************************************************************)
(* SpecStore: the indices of the coefficient stores d.progCoeffs of a      *)
(* progressive frame in one pass over it: a scan of all its components, a  *)
(* scan of one component, or reconstructProgressiveImage.  pIn is the      *)
(* frame and the pass; pOut is, for every block reached, its component,    *)
(* its position and the index computed for it, counted from 1.             *)
(***************************************************************************)
MaxStoreSide == 33

\* the sides of the frames: 1, and around the multiples of 8 and of 16
StoreSides == { n \in 1..MaxStoreSide : n = 1 \/ n % 16 \in {1, 8, 9} }

\* d.comp of the frames processSOF accepts: one component, or Y with h of 1,
\* 2 or 4 and v of 1 or 2, and Cb and Cr alike with factors that divide
\* those of Y
StoreComps ==
    { << [c |-> 1, h |-> 1, v |-> 1] >> }
    \cup { << [c |-> 1, h |-> hv[1], v |-> hv[2]], [c |-> 2, h |-> hv[3], v |-> hv[4]],
              [c |-> 3, h |-> hv[3], v |-> hv[4]] >> :
             hv \in { x \in {1, 2, 4} \X {1, 2} \X {1, 2, 4} \X {1, 2} :
                        x[1] % x[3] = 0 /\ x[2] % x[4] = 0 } }

\* the passes: the scan of all components, the scan of the component i, and
\* the reconstruction
StorePasses ==
    { [kind |-> "interleaved", compIndex |-> 0], [kind |-> "reconstruction", compIndex |-> 0] }
    \cup { [kind |-> "single", compIndex |-> c] : c \in 0..2 }

StoreInit ==
    /\ pIn \in { in \in [comp : StoreComps, width : StoreSides, height : StoreSides,
                         pass : StorePasses] :
                   in.pass.compIndex < Len(in.comp) }
    /\ pOut = <<>>
    /\ pPc = "frame"
    /\ NotCallIdle

\* the decoder of the frame
storeDecoder(in) ==
    [nComp |-> Len(in.comp), comp |-> in.comp, progressive |-> TRUE, baseline |-> FALSE]

\* the blocks <<i, bx, by>> the loops of reconstructProgressiveImage reach
reconBlocks(in) ==
    Flatten([c \in 1..Len(in.comp) |->
        LET st == reconSteps(in.comp, c - 1)
            perRow == (in.width + st.h - 1) \div st.h
            rows == (in.height + st.v - 1) \div st.v
        IN  [k \in 1..(perRow * rows) |-> <<c - 1, (k - 1) % perRow, (k - 1) \div perRow>>]])

\* the stores of the components the scans have allocated
storesOf(in) ==
    allocProgCoeffs([c \in 0..(Len(in.comp) - 1) |-> <<>>], storeDecoder(in),
                    [c \in 1..Len(in.comp) |-> c - 1], reconMxx(in), reconMyy(in))

\* a scan of processSOS: the blocks and their indices d.progCoeffs[compIndex]
\* [by*mxx*hi+bx]
StoreScan ==
    /\ pPc = "frame"
    /\ pIn.pass.kind # "reconstruction"
    /\ \E scan \in {IF pIn.pass.kind = "interleaved" THEN [c \in 1..Len(pIn.comp) |-> c - 1]
                    ELSE <<pIn.pass.compIndex>>} :
       \E blocks \in {decoderBlocks(storeDecoder(pIn), pIn.width, pIn.height, scan)} :
          pOut' = [k \in 1..Len(blocks) |->
                      [pos |-> blocks[k],
                       index |-> coeffIndex([d |-> storeDecoder(pIn)],
                                            [mxx |-> reconMxx(pIn)], blocks[k])]]
    /\ pPc' = "scanned"
    /\ UNCHANGED <<pIn, notCallVars>>

\* reconstructProgressiveImage: the blocks and their indices
\* d.progCoeffs[i][by*stride+bx], stride := mxx * d.comp[i].h
StoreReconstruct ==
    /\ pPc = "frame"
    /\ pIn.pass.kind = "reconstruction"
    /\ \E blocks \in {reconBlocks(pIn)} :
          pOut' = [k \in 1..Len(blocks) |->
                      [pos |-> blocks[k],
                       index |-> blocks[k][3] * (reconMxx(pIn) * pIn.comp[blocks[k][1] + 1].h)
                                    + blocks[k][2] + 1]]
    /\ pPc' = "reconstructed"
    /\ UNCHANGED <<pIn, notCallVars>>

NextStore ==
    \/ StoreScan
    \/ StoreReconstruct

SpecStore == StoreInit /\ [][NextStore]_vars

\* C38: every index by*mxx*h_i+bx computed in a scan or in the final
\* reconstruction lies inside the store of its component, of length
\* mxx*myy*h_i*v_i, and two different blocks of a component have different
\* indices.
C38_StoreIndexInRange ==
    pPc # "frame" =>
        \A stores \in {storesOf(pIn)} :
            /\ \A c \in 0..(Len(pIn.comp) - 1) :
                  Len(stores[c]) = reconMxx(pIn) * reconMyy(pIn)
                                       * pIn.comp[c + 1].h * pIn.comp[c + 1].v
            /\ \A k \in 1..Len(pOut) :
                  pOut[k].index \in 1..Len(stores[pOut[k].pos[1]])
            /\ \A k, j \in 1..Len(pOut) :
                  (pOut[k].pos[1] = pOut[j].pos[1] /\ pOut[k].pos # pOut[j].pos)
                      => pOut[k].index # pOut[j].index

\* C38 witness: the scan of Cb alone in a frame of 33x17 pixels with Y 4x2
\* and Cb 2x1 has reached the last block of the store of Cb
C38_Witness ==
    /\ pPc = "scanned"
    /\ pIn.pass = [kind |-> "single", compIndex |-> 1]
    /\ pIn.width = 33 /\ pIn.height = 17
    /\ pIn.comp[1].h = 4 /\ pIn.comp[1].v = 2 /\ pIn.comp[2].h = 2 /\ pIn.comp[2].v = 1
    /\ \E k \in 1..Len(pOut) : pOut[k].index = Len(storesOf(pIn)[1])

(***************************************************************************)
(* SpecSymbols: emitHuff applied to each symbol the tables are documented  *)
(* to hold, and emitHuffRLE applied to the DC differences below 2^11 and   *)
(* the AC values below 2^10 in magnitude.                                  *)
(***************************************************************************)
\* the symbols of table h: "The DC tables have 12 decoded values", "16 valid
\* Runs and 10 valid Sizes, plus two special R|S cases: 0|0 (EOB) and F|0
\* (ZRL)"
symbolsOf(h) ==
    IF h \in {huffIndexLuminanceDC, huffIndexChrominanceDC}
      THEN 0..11
      ELSE {0, 240} \cup { BitOr(r * 16, z) : r \in 0..15, z \in 1..10 }

\* the calls: emitHuff with a symbol of the table, emitHuffRLE with a DC
\* difference and run length 0, or with an AC value that is not 0 after a run
\* of 0..15 zeros
SymbolCalls ==
    { [call |-> "emitHuff", h |-> x[1], runLength |-> 0, value |-> x[2]] :
        x \in { y \in (0..(nHuffIndex - 1)) \X (0..255) : y[2] \in symbolsOf(y[1]) } }
    \cup { [call |-> "emitHuffRLE", h |-> h, runLength |-> 0, value |-> v] :
             h \in {huffIndexLuminanceDC, huffIndexChrominanceDC},
             v \in (1 - Pow2(11))..(Pow2(11) - 1) }
    \cup { [call |-> "emitHuffRLE", h |-> h, runLength |-> r, value |-> v] :
             h \in {huffIndexLuminanceAC, huffIndexChrominanceAC},
             r \in 0..15,
             v \in ((1 - Pow2(10))..(Pow2(10) - 1)) \ {0} }

SymbolInit ==
    /\ pIn \in SymbolCalls
    /\ pOut = [e |-> freshEncoder, panic |-> FALSE, symbol |-> 0]
    /\ pPc = "start"
    /\ NotCallIdle

\* e.emitHuff(h, value); theHuffmanLUT[h][value] with value out of range is
\* a panic
SymbolEmitHuff ==
    /\ pPc = "start"
    /\ pIn.call = "emitHuff"
    /\ IF pIn.value \in DOMAIN theHuffmanLUT[pIn.h]
         THEN pOut' = [pOut EXCEPT !.e = emitHuff(freshEncoder, pIn.h, pIn.value),
                                   !.symbol = pIn.value]
         ELSE pOut' = [pOut EXCEPT !.panic = TRUE, !.symbol = pIn.value]
    /\ pPc' = "emitted"
    /\ UNCHANGED <<pIn, notCallVars>>

\* e.emitHuffRLE(h, runLength, value), which passes runLength<<4 | nBits to
\* emitHuff
SymbolEmitHuffRLE ==
    /\ pPc = "start"
    /\ pIn.call = "emitHuffRLE"
    /\ \E y \in {BitOr(pIn.runLength * 16, nBitsOf(pIn.value))} :
          IF y \in DOMAIN theHuffmanLUT[pIn.h]
            THEN pOut' = [pOut EXCEPT
                             !.e = emitHuffRLE(freshEncoder, pIn.h, pIn.runLength, pIn.value),
                             !.symbol = y]
            ELSE pOut' = [pOut EXCEPT !.panic = TRUE, !.symbol = y]
    /\ pPc' = "emitted"
    /\ UNCHANGED <<pIn, notCallVars>>

NextSymbols == SymbolEmitHuff \/ SymbolEmitHuffRLE

SpecSymbols == SymbolInit /\ [][NextSymbols]_vars

\* the code length in the entry of table h for the symbol: x>>24
lengthInLUT(h, symbol) == Shr(theHuffmanLUT[h][symbol], 24)

\* C39: every symbol passed to emitHuff (a DC category 0..11, or 0x00, 0xF0
\* or run<<4 | size with run 0..15 and size 1..10 in an AC table; the symbol
\* of a DC difference below 2^11 or of an AC value below 2^10 in magnitude is
\* one of them) is inside the compiled table and has a code of 1..16 bits
\* there, and that many bits are emitted for it, followed for emitHuffRLE
\* by the low bits of the value.
C39_SymbolsHaveCodes ==
    pPc = "emitted" =>
        /\ ~pOut.panic
        /\ pOut.symbol \in symbolsOf(pIn.h)
        /\ pOut.symbol \in DOMAIN theHuffmanLUT[pIn.h]
        /\ lengthInLUT(pIn.h, pOut.symbol) \in 1..16
        /\ Len(emittedBits(pOut.e)) =
              lengthInLUT(pIn.h, pOut.symbol)
                  + (IF pIn.call = "emitHuffRLE" THEN nBitsOf(pIn.value) ELSE 0)

\* C39 witness: the AC value -1023 after 15 zeros was passed as the symbol
\* 0xFA, the largest of the chrominance AC table, and emitted as the 16 bits
\* of its code and 10 more
C39_Witness ==
    /\ pPc = "emitted"
    /\ pIn = [call |-> "emitHuffRLE", h |-> huffIndexChrominanceAC,
              runLength |-> 15, value |-> -1023]
    /\ pOut.symbol = 250
    /\ ~pOut.panic
    /\ Len(emittedBits(pOut.e)) = 26

(***************************************************************************)
(* SpecClamp: clampToUint8 applied to one int32.                           *)
(***************************************************************************)
MaxClampDistance == 300

\* the largest and the smallest int32
maxInt32 == (Pow2(30) - 1) * 2 + 1
minInt32 == -maxInt32 - 1

\* the inputs: those around 0, and those next to the ends of int32
ClampInputs ==
    ((-MaxClampDistance)..MaxClampDistance)
        \cup { minInt32 + k : k \in 0..MaxClampDistance }
        \cup { maxInt32 - k : k \in 0..MaxClampDistance }

\* c += 128 on an int32: the sum modulo 2^32, as a value of
\* -2^31..2^31-1
addInt32_128(c) ==
    IF c > maxInt32 - 128
      THEN (((c - maxInt32) - 1) + 128 - maxInt32) - 1
      ELSE c + 128

\* clampToUint8 performs level shift by +128 and clamps to [0, 255]
clampToUint8(c) ==
    LET c1 == addInt32_128(c)
    IN  IF c1 < 0 THEN 0
        ELSE IF c1 > 255 THEN 255
        ELSE c1 % 256

ClampInit ==
    /\ pIn \in ClampInputs
    /\ pOut = 0
    /\ pPc = "start"
    /\ NotCallIdle

\* dst[...] = clampToUint8(b[...])
ClampCall ==
    /\ pPc = "start"
    /\ pOut' = clampToUint8(pIn)
    /\ pPc' = "returned"
    /\ UNCHANGED <<pIn, notCallVars>>

NextClamp == ClampCall

SpecClamp == ClampInit /\ [][NextClamp]_vars

\* min(255, max(0, c + 128)) computed without leaving -2^31..2^31-1: c + 128
\* is above 255 for every c above 127
shiftedAndClamped(c) ==
    IF c > 127 THEN 255
    ELSE IF c + 128 < 0 THEN 0
    ELSE c + 128

\* C40: clampToUint8(c) equals min(255, max(0, c + 128)) for every int32 c,
\* those within 128 of the largest int32 included.
C40_ClampIsLevelShift ==
    pPc = "returned" => pOut = shiftedAndClamped(pIn)
=============================================================================
